---- MODULE Spec2Model ----
(***************************************************************************)
(* State-broadcast daemons of the status bar: the time daemon              *)
(* (time_service.py), the window/workspace daemon (window_service.py) and  *)
(* the combined battery/backlight/audio daemon (combined_service.py).      *)
(*                                                                         *)
(* The module holds several specifications over one set of variables; each *)
(* specification moves only the variables of the part it models:           *)
(*   SpecTime     the serving time daemon: monitor_time, notify_clients,   *)
(*                handle_client, accept_clients (no lock in the source)    *)
(*   SpecCombined the serving combined daemon: the inotify thread, the     *)
(*                audio callback, notify_clients, handle_client            *)
(*   SpecFile     update_file_data_and_notify called with either argument  *)
(*   SpecServing  a serving daemon, the time daemon or the combined one    *)
(*   FairTime     SpecTime with every thread of the daemon kept running    *)
(*   SpecTimeLife instances of the time daemon from main() to exit         *)
(*   SpecCombinedLife, FairCombinedLife                                    *)
(*                instances of the combined daemon from main() to exit     *)
(*   SpecParse    _parse_battery_status on status strings                  *)
(*   SpecBatteryTime  _calculate_time_from_files on battery directories    *)
(*   SpecWorkspaces   the window daemon's workspaces list from query to    *)
(*                broadcast                                                *)
(*   SpecIsland, FairIsland                                                *)
(*                one island of the bar connecting to its daemon           *)
(*   SpecWindow, FairWindow                                                *)
(*                the serving window daemon: monitor_display_state,        *)
(*                notify_clients, handle_client, accept_clients            *)
(*   SpecInbound  the combined daemon with clients that write to it        *)
(*   SpecSleep    the sleep of monitor_time between two evaluations        *)
(*   SpecWatch, FairWatch                                                  *)
(*                inotify_event_loop of the combined daemon                *)
(*   SpecCompositor   _fetch_hyprland_data and get_current_display_state   *)
(*                over sessions and socket outcomes                        *)
(*   SpecAudio, FairAudio                                                  *)
(*                init_audio_monitoring with the mixer library failing     *)
(*   SpecListen   listen_for_updates of an island reading lines            *)
(*   SpecSysfs    the battery and backlight files found at construction    *)
(*                and read at every refresh                                *)
(*   SpecWriters  the threads that write to one client connection          *)
(*   SpecLock     every user of data_lock of the combined daemon           *)
(*   SpecLateAccept, FairLateAccept                                        *)
(*                the combined daemon shutting down while connections      *)
(*                arrive                                                   *)
(***************************************************************************)
EXTENDS Integers, Sequences, FiniteSets, TLC

\* ---------------------------------------------------------------- bounds
MaxClients == 2      \* connections accepted in one run of the time daemon
MaxConns   == 1      \* connections accepted in one run of the combined daemon
MaxTick       == 2   \* the wall clock is followed for MaxTick minutes
MinutesPerDay == 2   \* HH:MM repeats after this many minutes (1440 on a real clock)
MaxEnv        == 2   \* changes of the battery/backlight files and of the mixer
MaxClock      == 60  \* time.time() is followed for MaxClock seconds
MaxInst       == 3   \* processes of one daemon started in one run
MaxPieces     == 3   \* a status string is put together from at most MaxPieces pieces
MaxWs         == 4   \* the compositor returns at most MaxWs workspaces
MaxViewers    == 2   \* connections accepted in one run of the window daemon
MaxInbound    == 2   \* chunks of bytes a client writes to its connection
TicksPerSecond == 2  \* the clock of the sleep computation is read in ticks
MaxLatency    == 2   \* ticks an evaluation takes, and ticks a sleep overruns
MaxMinutes    == 3   \* the sleeping monitor is followed for MaxMinutes minutes
MaxEvents     == 3   \* inotify events queued on the descriptor at one time
MaxDepth      == 3   \* calls of init_audio_monitoring on the stack at one time
MaxLines      == 3   \* lines the daemon writes to one island connection
LineParts     == 2   \* send() calls one sendall may need for one line
MaxChanges    == 2   \* changes of current_data followed while one client is written to
MaxArrivals   == 2   \* connections made to the combined daemon around its shutdown

Socks   == 1..MaxClients
Conns   == 1..MaxConns
Insts   == 1..MaxInst
Viewers == 1..MaxViewers

\* ------------------------------------------------------------- utilities
Last(s) == s[Len(s)]

InSeq(x, s) == \E i \in 1..Len(s) : s[i] = x

\* list.remove(x): drops the first occurrence of x
RECURSIVE RemoveFirst(_, _)
RemoveFirst(s, x) ==
    IF s = <<>> THEN <<>>
    ELSE IF Head(s) = x THEN Tail(s)
    ELSE <<Head(s)>> \o RemoveFirst(Tail(s), x)

VARIABLES
    \* --- time daemon (time_service.py) ---
    t_now,              \* the wall clock, in minutes since the daemon started
    current_time_info,  \* TimeService.current_time_info
    t_clients,          \* TimeService.clients, a Python list of sockets
    t_sock,             \* per socket: accepted?, peer end open?, server end open?
    t_recv,             \* per socket: the lines the peer has received
    t_atConnect,        \* per socket: the snapshot stored when it was accepted
    t_mon,              \* the monitor_time thread (with its notify_clients frame)
    t_h,                \* the handle_client thread of each socket
    \* --- combined daemon (combined_service.py) ---
    c_clock,            \* time.time(), in seconds since the daemon was constructed
    c_env,              \* how often the files or the mixer have shown a new value so far
    current_data,       \* CombinedService.current_data
    c_ver,              \* how often current_data has been changed so far
    last_battery_update,\* CombinedService.last_battery_update
    f_call,             \* the latest call of update_file_data_and_notify: its argument and locals
    clients,            \* CombinedService.clients
    c_sock,             \* per socket: accepted?, peer end open?, server end open?
    c_recv,             \* per socket: the lines the peer has received
    c_thr,              \* the inotify thread and the GLib (audio) thread
    c_h,                \* the handle_client thread of each socket
    data_lock,          \* CombinedService.data_lock: "free" or the thread holding it
    c_hist,             \* the values current_data has had while data_lock was free, oldest first
    c_down,             \* "up", "signalled" (running is False) or "cleaned" (cleanup has run)
    \* --- processes of the time daemon ---
    l_inst,             \* per process: where it is in main/__init__/run/cleanup
    l_path,             \* /tmp/time_service.sock: 0 = no file, i = the file process i bound
    \* --- processes of the combined daemon ---
    k_inst,             \* per process: where it is, its lock_file, whether a signal was handled
    k_path,             \* /tmp/combined_service.sock: 0 = no file, i = the file process i bound
    k_lock,             \* /tmp/combined_service.lock: 0 = no file, i = the file process i created
    k_holder,           \* per lock file (by creator): the process holding the flock, or 0
    \* --- _parse_battery_status ---
    status_str,         \* the content of the status file, a sequence of characters
    p_n,                \* the number of pieces status_str was put together from
    p_ret,              \* <<>> or the one value returned for status_str
    \* --- _calculate_time_from_files ---
    b_files,            \* per battery file: None = the file does not exist, else its integer content
    b_status,           \* the content of the status file, a sequence of characters
    b_ret,              \* <<>> or the one value returned for b_files and b_status
    \* --- window daemon (window_service.py), the workspaces list ---
    w_fetched,          \* what the compositor returned for the latest j/workspaces query
    current_display_state_data, \* WindowService.current_display_state_data["workspaces"]
    w_sent,             \* <<>> or the workspaces list of the latest line sent
    \* --- one island of the bar (time, window, system stats, battery) ---
    island,             \* the widget: its class, service_socket, the thread or GLib source pending
    i_up,               \* a daemon is listening on the island's socket path
    \* --- window daemon (window_service.py), serving state ---
    v_env,              \* the display state the compositor reports at this moment
    v_data,             \* WindowService.current_display_state_data
    v_clients,          \* WindowService.clients, the list of registered sockets
    v_sock,             \* per connection: accepted, the peer's end, the server's end
    v_last,             \* per connection: the latest line the peer has been sent
    v_mon,              \* the monitor thread: position, message, loop index, failed sockets
    v_h,                \* per connection: the position of its handle_client thread
    \* --- combined daemon, bytes written by the clients ---
    c_in,               \* per connection: chunks waiting in the socket, chunks recv has returned
    \* --- time daemon, the sleep of monitor_time ---
    s_clock,            \* datetime.now(), in ticks
    s_thr,              \* the monitor thread: position, sleep_seconds, when it computed it, when it last woke
    \* --- combined daemon, inotify_event_loop ---
    o_fd,               \* CombinedService.inotify_fd
    o_events,           \* inotify events queued on the descriptor
    o_running,          \* CombinedService.running
    o_loop,             \* the inotify thread: position, what woke it, events read, calls made
    \* --- window daemon, the queries to the compositor ---
    h_env,              \* the environment: the signature, XDG_RUNTIME_DIR and DISPLAY are set or not
    h_out,              \* <<>> or, per query and socket location, what happens there
    h_ret,              \* <<>> or what the latest _fetch_hyprland_data did
    h_state,            \* <<>> or what the latest get_current_display_state returned
    \* --- combined daemon, the start of the audio monitoring ---
    a_env,              \* <<>> or: the mixer library imports or not, and the line of the try block that raises
    a_cvc,              \* the global CVC_AVAILABLE
    a_main,             \* the main thread: its position and the calls of init_audio_monitoring on its stack
    a_service,          \* self.audio_service
    a_glib,             \* the GLib thread: the main loop, the signal connection, the callback's position
    a_lock,             \* who holds data_lock
    a_data,             \* the audio fields of current_data
    \* --- islands, the listening thread ---
    j_island,           \* "None" or the island whose listen_for_updates is followed
    j_wire,             \* the lines written by the peer and not yet received
    j_buffer,           \* the lines of the received chunk not yet looked at
    j_sock,             \* self.service_socket: "None" or "connected"
    j_applied,          \* the ids of the lines handed to GLib.idle_add
    j_pc,               \* the listening thread: "off", "recv", "lines", "done"
    \* --- combined daemon, the battery and backlight files ---
    r_files,            \* the files under /sys as they are now
    r_paths,            \* the paths found by __init__: battery_files, backlight_*_file
    r_data,             \* the file fields of current_data
    r_call,             \* the latest call of update_file_data_and_notify
    r_pc,               \* "off", "constructed", "serving"
    \* --- combined daemon, the writers of one connection ---
    x_thr,              \* per writer: its position, the version of its line, the parts it has sent
    x_ver,              \* the version of current_data
    x_registered,       \* the connection is in self.clients
    x_wire,             \* the parts written to the connection, in order
    \* --- combined daemon, the users of data_lock ---
    m_pc,               \* per thread: the statement it is at
    m_lock,             \* "free" or the thread that holds data_lock
    m_running,          \* self.running
    \* --- the combined daemon shutting down while connections arrive ---
    e_running,          \* self.running
    e_main,             \* where the main thread is, from run()'s wait loop to the end of the process
    e_accept,           \* accept_clients: pc, and cur: the socket accept() has just returned
    e_listen,           \* the listening socket is open
    e_sock,             \* per connection: "none", "pending" (connected, in the backlog), "open", "closed", "reset"
    e_gone,             \* the connections whose peer has closed its end
    e_clients,          \* self.clients
    e_hand,             \* per connection: where its handle_client thread is
    e_late              \* the connections accept() returned after cleanup had cleared self.clients

varsT == <<t_now, current_time_info, t_clients, t_sock, t_recv, t_atConnect, t_mon, t_h>>

varsC == <<c_clock, c_env, current_data, c_ver, last_battery_update, f_call,
           clients, c_sock, c_recv, c_thr, c_h, data_lock, c_hist, c_down>>

varsL == <<l_inst, l_path>>

varsK == <<k_inst, k_path, k_lock, k_holder>>

varsP == <<status_str, p_n, p_ret>>

varsB == <<b_files, b_status, b_ret>>

varsW == <<w_fetched, current_display_state_data, w_sent>>

varsI == <<island, i_up>>

varsV == <<v_env, v_data, v_clients, v_sock, v_last, v_mon, v_h>>

varsN == <<c_in>>

varsS == <<s_clock, s_thr>>

varsO == <<o_fd, o_events, o_running, o_loop>>

varsH == <<h_env, h_out, h_ret, h_state>>

varsA == <<a_env, a_cvc, a_main, a_service, a_glib, a_lock, a_data>>

varsJ == <<j_island, j_wire, j_buffer, j_sock, j_applied, j_pc>>

varsR == <<r_files, r_paths, r_data, r_call, r_pc>>

varsX == <<x_thr, x_ver, x_registered, x_wire>>

varsM == <<m_pc, m_lock, m_running>>

varsE == <<e_running, e_main, e_accept, e_listen, e_sock, e_gone, e_clients, e_hand, e_late>>

vars == <<varsT, varsC, varsL, varsK, varsP, varsB, varsW, varsI, varsV, varsN, varsS, varsO, varsH, varsA, varsJ, varsR, varsX, varsM, varsE>>

\* what the actions of one daemon leave alone
varsNotT == <<varsC, varsL, varsK, varsP, varsB, varsW, varsI, varsV, varsN, varsS, varsO, varsH, varsA, varsJ, varsR, varsX, varsM, varsE>>
varsNotC == <<varsT, varsL, varsK, varsP, varsB, varsW, varsI, varsV, varsN, varsS, varsO, varsH, varsA, varsJ, varsR, varsX, varsM, varsE>>
varsNotL == <<varsT, varsC, varsK, varsP, varsB, varsW, varsI, varsV, varsN, varsS, varsO, varsH, varsA, varsJ, varsR, varsX, varsM, varsE>>
varsNotK == <<varsT, varsC, varsL, varsP, varsB, varsW, varsI, varsV, varsN, varsS, varsO, varsH, varsA, varsJ, varsR, varsX, varsM, varsE>>
varsNotP == <<varsT, varsC, varsL, varsK, varsB, varsW, varsI, varsV, varsN, varsS, varsO, varsH, varsA, varsJ, varsR, varsX, varsM, varsE>>
varsNotB == <<varsT, varsC, varsL, varsK, varsP, varsW, varsI, varsV, varsN, varsS, varsO, varsH, varsA, varsJ, varsR, varsX, varsM, varsE>>
varsNotW == <<varsT, varsC, varsL, varsK, varsP, varsB, varsI, varsV, varsN, varsS, varsO, varsH, varsA, varsJ, varsR, varsX, varsM, varsE>>
varsNotI == <<varsT, varsC, varsL, varsK, varsP, varsB, varsW, varsV, varsN, varsS, varsO, varsH, varsA, varsJ, varsR, varsX, varsM, varsE>>
varsNotV == <<varsT, varsC, varsL, varsK, varsP, varsB, varsW, varsI, varsN, varsS, varsO, varsH, varsA, varsJ, varsR, varsX, varsM, varsE>>
varsNotN == <<varsT, varsC, varsL, varsK, varsP, varsB, varsW, varsI, varsV, varsS, varsO, varsH, varsA, varsJ, varsR, varsX, varsM, varsE>>
varsNotS == <<varsT, varsC, varsL, varsK, varsP, varsB, varsW, varsI, varsV, varsN, varsO, varsH, varsA, varsJ, varsR, varsX, varsM, varsE>>
varsNotO == <<varsT, varsC, varsL, varsK, varsP, varsB, varsW, varsI, varsV, varsN, varsS, varsH, varsA, varsJ, varsR, varsX, varsM, varsE>>
varsNotH == <<varsT, varsC, varsL, varsK, varsP, varsB, varsW, varsI, varsV, varsN, varsS, varsO, varsA, varsJ, varsR, varsX, varsM, varsE>>
varsNotA == <<varsT, varsC, varsL, varsK, varsP, varsB, varsW, varsI, varsV, varsN, varsS, varsO, varsH, varsJ, varsR, varsX, varsM, varsE>>
varsNotJ == <<varsT, varsC, varsL, varsK, varsP, varsB, varsW, varsI, varsV, varsN, varsS, varsO, varsH, varsA, varsR, varsX, varsM, varsE>>
varsNotR == <<varsT, varsC, varsL, varsK, varsP, varsB, varsW, varsI, varsV, varsN, varsS, varsO, varsH, varsA, varsJ, varsX, varsM, varsE>>
varsNotX == <<varsT, varsC, varsL, varsK, varsP, varsB, varsW, varsI, varsV, varsN, varsS, varsO, varsH, varsA, varsJ, varsR, varsM, varsE>>
varsNotM == <<varsT, varsC, varsL, varsK, varsP, varsB, varsW, varsI, varsV, varsN, varsS, varsO, varsH, varsA, varsJ, varsR, varsX, varsE>>
varsNotE == <<varsT, varsC, varsL, varsK, varsP, varsB, varsW, varsI, varsV, varsN, varsS, varsO, varsH, varsA, varsJ, varsR, varsX, varsM>>
varsNotC_N == <<varsT, varsL, varsK, varsP, varsB, varsW, varsI, varsV, varsS, varsO, varsH, varsA, varsJ, varsR, varsX, varsM, varsE>>

\* ======================================================================
\*  TIME DAEMON, serving state
\* ======================================================================

\* get_ordinal_suffix / strftime are not modelled character by character:
\* a date is its day number, and full_display is the joined triple.
get_formatted_time(now) ==
    LET minute == now % MinutesPerDay
        day    == now \div MinutesPerDay
    IN [ time_str     |-> minute,
         day_name     |-> day,
         date_str     |-> day,
         full_display |-> <<minute, day, day>> ]

ClockValues == 0..MaxTick

\* the snapshot a daemon holds before its first sample
NoInfo == get_formatted_time(0)

\* socket.send on a connection: fails once either end has been closed
CanSend(c) == t_sock[c].peer /\ t_sock[c].srv

Line(kind, data, bid) == [kind |-> kind, data |-> data, bid |-> bid]

\* the monitor thread between two samples (bid counts the broadcasts so far;
\* absorbed: the except clause of monitor_time has run at least once)
MonIdle(bid, raised) ==
    [pc |-> "sample", new |-> NoInfo, msg |-> NoInfo, idx |-> 0,
     disconnected |-> <<>>, bid |-> bid, atStart |-> {}, raised |-> raised,
     absorbed |-> raised]

InitT ==
    /\ t_now = 0
    /\ current_time_info = NoInfo
    /\ t_clients = <<>>
    /\ t_sock = [c \in Socks |-> [born |-> FALSE, peer |-> FALSE, srv |-> FALSE]]
    /\ t_recv = [c \in Socks |-> <<>>]
    /\ t_atConnect = [c \in Socks |-> NoInfo]
    /\ t_mon = MonIdle(0, FALSE)
    /\ t_h = [c \in Socks |-> [pc |-> "none", msg |-> NoInfo]]

\* monitor_time, line 71: new_time_info = self.get_formatted_time().
\* The thread has slept; the clock has moved on by any amount (or not at all).
T_MonitorSample ==
    /\ t_mon.pc = "sample"
    /\ \E t \in ClockValues :
          /\ t_now <= t
          /\ t_now' = t
          /\ t_mon' = [t_mon EXCEPT !.pc = "compare", !.new = get_formatted_time(t),
                                    !.raised = FALSE]
    /\ UNCHANGED <<current_time_info, t_clients, t_sock, t_recv, t_atConnect, t_h, varsNotT>>

\* the change test of monitor_time, line 73
TimeChanged(new, cur) == new.time_str # cur.time_str

\* monitor_time, lines 73-75: store the sample and enter notify_clients, or sleep
T_MonitorCompare ==
    /\ t_mon.pc = "compare"
    /\ IF TimeChanged(t_mon.new, current_time_info)
       THEN /\ current_time_info' = t_mon.new
            /\ t_mon' = [t_mon EXCEPT !.pc = "notify"]
       ELSE /\ current_time_info' = current_time_info
            /\ t_mon' = [MonIdle(t_mon.bid, FALSE) EXCEPT !.absorbed = t_mon.absorbed]
    /\ UNCHANGED <<t_now, t_clients, t_sock, t_recv, t_atConnect, t_h, varsNotT>>

\* notify_clients, lines 88-89: message = json.dumps(self.current_time_info)
T_NotifyMessage ==
    /\ t_mon.pc = "notify"
    /\ t_mon' = [t_mon EXCEPT !.pc = "send", !.msg = current_time_info, !.idx = 0,
                              !.disconnected = <<>>, !.bid = t_mon.bid + 1,
                              !.atStart = {t_clients[i] : i \in 1..Len(t_clients)}]
    /\ UNCHANGED <<t_now, current_time_info, t_clients, t_sock, t_recv, t_atConnect, t_h, varsNotT>>

\* notify_clients, lines 91-95: one turn of `for client in self.clients`.
\* The list iterator holds an index into the live list; the loop ends when the
\* index has reached the list's current length.
T_NotifySend ==
    /\ t_mon.pc = "send"
    /\ IF t_mon.idx < Len(t_clients)
       THEN LET c == t_clients[t_mon.idx + 1] IN
            IF CanSend(c)
            THEN /\ t_recv' = [t_recv EXCEPT ![c] = Append(@, Line("broadcast", t_mon.msg, t_mon.bid))]
                 /\ t_mon' = [t_mon EXCEPT !.idx = @ + 1]
            ELSE /\ t_recv' = t_recv
                 /\ t_mon' = [t_mon EXCEPT !.idx = @ + 1,
                                           !.disconnected = Append(@, c)]
       ELSE /\ t_recv' = t_recv
            /\ t_mon' = [t_mon EXCEPT !.pc = "remove"]
    /\ UNCHANGED <<t_now, current_time_info, t_clients, t_sock, t_atConnect, t_h, varsNotT>>

\* the exception of the removal ending the monitor thread
T_NotifyRemove_Fatal ==
    /\ t_mon.pc = "remove"
    /\ IF t_mon.disconnected = <<>>
       THEN /\ t_mon' = [MonIdle(t_mon.bid, FALSE) EXCEPT !.absorbed = t_mon.absorbed]
            /\ t_clients' = t_clients
       ELSE IF InSeq(Head(t_mon.disconnected), t_clients)
       THEN /\ t_clients' = RemoveFirst(t_clients, Head(t_mon.disconnected))
            /\ t_mon' = [t_mon EXCEPT !.pc = "close"]
       ELSE /\ t_clients' = t_clients
            /\ t_mon' = [MonIdle(t_mon.bid, TRUE) EXCEPT !.pc = "ended"]
    /\ UNCHANGED <<t_now, current_time_info, t_sock, t_recv, t_atConnect, t_h, varsNotT>>

\* notify_clients, lines 97-98: self.clients.remove(client) for the next failed
\* client. list.remove raises ValueError when the element is gone; the
\* exception leaves notify_clients and is caught in monitor_time (line 83).
T_NotifyRemove ==
    /\ t_mon.pc = "remove"
    /\ IF t_mon.disconnected = <<>>
       THEN /\ t_mon' = [MonIdle(t_mon.bid, FALSE) EXCEPT !.absorbed = t_mon.absorbed]
            /\ t_clients' = t_clients
       ELSE IF InSeq(Head(t_mon.disconnected), t_clients)
       THEN /\ t_clients' = RemoveFirst(t_clients, Head(t_mon.disconnected))
            /\ t_mon' = [t_mon EXCEPT !.pc = "close"]
       ELSE /\ t_clients' = t_clients
            /\ t_mon' = MonIdle(t_mon.bid, TRUE)
    /\ UNCHANGED <<t_now, current_time_info, t_sock, t_recv, t_atConnect, t_h, varsNotT>>

\* notify_clients, lines 99-102: client.close()
T_NotifyClose ==
    /\ t_mon.pc = "close"
    /\ t_sock' = [t_sock EXCEPT ![Head(t_mon.disconnected)].srv = FALSE]
    /\ t_mon' = [t_mon EXCEPT !.pc = "remove", !.disconnected = Tail(@)]
    /\ UNCHANGED <<t_now, current_time_info, t_clients, t_recv, t_atConnect, t_h, varsNotT>>

\* accept_clients, lines 126-136: accept, self.clients.append, start the handler
T_Accept ==
    /\ \E c \in Socks :
          /\ ~t_sock[c].born
          /\ \A d \in Socks : d < c => t_sock[d].born
          /\ t_sock' = [t_sock EXCEPT ![c] = [born |-> TRUE, peer |-> TRUE, srv |-> TRUE]]
          /\ t_clients' = Append(t_clients, c)
          /\ t_atConnect' = [t_atConnect EXCEPT ![c] = current_time_info]
          /\ t_h' = [t_h EXCEPT ![c].pc = "msg"]
    /\ UNCHANGED <<t_now, current_time_info, t_recv, t_mon, varsNotT>>

\* the peer closes its end of the connection
T_PeerClose(c) ==
    /\ t_sock[c].born /\ t_sock[c].peer
    /\ t_sock' = [t_sock EXCEPT ![c].peer = FALSE]
    /\ UNCHANGED <<t_now, current_time_info, t_clients, t_recv, t_atConnect, t_mon, t_h, varsNotT>>

\* handle_client, line 106: message = json.dumps(self.current_time_info)
T_HandlerMessage(c) ==
    /\ t_h[c].pc = "msg"
    /\ t_h' = [t_h EXCEPT ![c] = [pc |-> "send", msg |-> current_time_info]]
    /\ UNCHANGED <<t_now, current_time_info, t_clients, t_sock, t_recv, t_atConnect, t_mon, varsNotT>>

\* handle_client, line 107: client_socket.send(message)
T_HandlerSend(c) ==
    /\ t_h[c].pc = "send"
    /\ IF CanSend(c)
       THEN /\ t_recv' = [t_recv EXCEPT ![c] = Append(@, Line("initial", t_h[c].msg, 0))]
            /\ t_h' = [t_h EXCEPT ![c] = [pc |-> "loop", msg |-> NoInfo]]
       ELSE /\ t_recv' = t_recv
            /\ t_h' = [t_h EXCEPT ![c] = [pc |-> "finally", msg |-> NoInfo]]
    /\ UNCHANGED <<t_now, current_time_info, t_clients, t_sock, t_atConnect, t_mon, varsNotT>>

\* handle_client, lines 110-113: the loop ends when fileno() is -1, that is
\* once the server end has been closed (by notify_clients)
T_HandlerLoopExit(c) ==
    /\ t_h[c].pc = "loop"
    /\ ~t_sock[c].srv
    /\ t_h' = [t_h EXCEPT ![c].pc = "finally"]
    /\ UNCHANGED <<t_now, current_time_info, t_clients, t_sock, t_recv, t_atConnect, t_mon, varsNotT>>

\* handle_client, line 118: if client_socket in self.clients
T_HandlerFinally(c) ==
    /\ t_h[c].pc = "finally"
    /\ t_h' = [t_h EXCEPT ![c].pc = IF InSeq(c, t_clients) THEN "remove" ELSE "close"]
    /\ UNCHANGED <<t_now, current_time_info, t_clients, t_sock, t_recv, t_atConnect, t_mon, varsNotT>>

\* handle_client, line 119: self.clients.remove(client_socket); a ValueError
\* raised inside the finally block ends the thread before close()
T_HandlerRemove(c) ==
    /\ t_h[c].pc = "remove"
    /\ IF InSeq(c, t_clients)
       THEN /\ t_clients' = RemoveFirst(t_clients, c)
            /\ t_h' = [t_h EXCEPT ![c].pc = "close"]
       ELSE /\ t_clients' = t_clients
            /\ t_h' = [t_h EXCEPT ![c].pc = "dead"]
    /\ UNCHANGED <<t_now, current_time_info, t_sock, t_recv, t_atConnect, t_mon, varsNotT>>

\* handle_client, lines 120-123: client_socket.close()
T_HandlerClose(c) ==
    /\ t_h[c].pc = "close"
    /\ t_sock' = [t_sock EXCEPT ![c].srv = FALSE]
    /\ t_h' = [t_h EXCEPT ![c].pc = "done"]
    /\ UNCHANGED <<t_now, current_time_info, t_clients, t_recv, t_atConnect, t_mon, varsNotT>>

T_Handler ==
    \E c \in Socks :
        \/ T_HandlerMessage(c)
        \/ T_HandlerSend(c)
        \/ T_HandlerLoopExit(c)
        \/ T_HandlerFinally(c)
        \/ T_HandlerRemove(c)
        \/ T_HandlerClose(c)

T_Peer == \E c \in Socks : T_PeerClose(c)

NextT ==
    \/ T_MonitorSample
    \/ T_MonitorCompare
    \/ T_NotifyMessage
    \/ T_NotifySend
    \/ T_NotifyRemove
    \/ T_NotifyClose
    \/ T_Accept
    \/ T_Peer
    \/ T_Handler

\* ----------------------------------------------------------------------
\*  Claims about the serving time daemon
\* ----------------------------------------------------------------------

\* C1: the first line a client receives is the initial snapshot, and it is the
\* snapshot that was current when the connection was accepted; no broadcast
\* line reaches the client before it.
C1_FirstLineIsSnapshotAtConnect ==
    \A c \in Socks :
        t_recv[c] # <<>> =>
            /\ t_recv[c][1].kind = "initial"
            /\ t_recv[c][1].data = t_atConnect[c]

\* C2: when the change detector has looked at a sample, the stored snapshot is
\* the sample if the sample differed from the stored value and the old value
\* otherwise, and a sample equal to the stored value starts no broadcast.
C2_StoredIsLastDifferingSample ==
    [][ (t_mon.pc = "compare" /\ t_mon'.pc # "compare") =>
          /\ current_time_info' =
                IF t_mon.new # current_time_info THEN t_mon.new ELSE current_time_info
          /\ (t_mon.new = current_time_info => t_mon'.pc # "notify") ]_vars

GotBroadcast(c, bid) ==
    \E i \in 1..Len(t_recv[c]) : t_recv[c][i].kind = "broadcast" /\ t_recv[c][i].bid = bid

\* C3: when a send has failed during a broadcast, every other client that was
\* registered when the broadcast began and whose peer is still connected has
\* received that broadcast, is still registered and has not been closed.
C3_FailureIsIsolated ==
    (t_mon.pc \in {"remove", "close"} /\ t_mon.disconnected # <<>>) =>
        \A b \in t_mon.atStart :
            t_sock[b].peer =>
                /\ InSeq(b, t_clients)
                /\ t_sock[b].srv
                /\ GotBroadcast(b, t_mon.bid)


\* ======================================================================
\*  COMBINED DAEMON, serving state
\* ======================================================================

RefreshInterval == 30    \* update_file_data_and_notify: battery refresh window, seconds

\* Python's None in a numeric field, and in a mute flag (a mute flag is "True",
\* "False" or NoFlag, so that it can be compared with the stored value)
None == -1
NoFlag == "None"

Threads == {"file", "audio"}

\* what get_battery_info_internal returns for the files' contents at some moment
BatteryReadings ==
    { [battery_percentage |-> 50, is_charging |-> FALSE, battery_time_remaining |-> 3600],
      [battery_percentage |-> 51, is_charging |-> TRUE,  battery_time_remaining |-> None] }

\* what get_backlight_percentage_internal returns
BacklightReadings == {40, 80}

\* what the mixer reports: speaker volume and mute flag, microphone mute flag
MixerStates ==
    { [volume |-> 70, speaker_muted |-> "False", mic_muted |-> "False"],
      [volume |-> 30, speaker_muted |-> "True",  mic_muted |-> "False"] }

\* the files' contents when the daemon was constructed
SysfsAtStart == [battery |-> [battery_percentage |-> 50, is_charging |-> FALSE,
                              battery_time_remaining |-> 3600],
                 backlight |-> 40]

\* A reading that differs from the stored value is a change of the files (or
\* of the mixer); the model follows MaxEnv of them.
MayRead(value, stored) == value = stored \/ c_env < MaxEnv

Counted(value, stored) == IF value = stored THEN c_env ELSE c_env + 1

StoredBattery ==
    [battery_percentage     |-> current_data.battery_percentage,
     is_charging            |-> current_data.is_charging,
     battery_time_remaining |-> current_data.battery_time_remaining]

StoredAudio ==
    [volume        |-> current_data.volume_percentage,
     speaker_muted |-> current_data.speaker_muted,
     mic_muted     |-> current_data.mic_muted]

\* current_data after __init__ (lines 173-177, 195): the file fields have been
\* read once, the audio fields wait for the first audio callback
DataAtStart ==
    [ battery_percentage     |-> SysfsAtStart.battery.battery_percentage,
      is_charging            |-> SysfsAtStart.battery.is_charging,
      battery_time_remaining |-> SysfsAtStart.battery.battery_time_remaining,
      backlight_percentage   |-> SysfsAtStart.backlight,
      volume_percentage      |-> None,
      speaker_muted          |-> NoFlag,
      mic_muted              |-> NoFlag ]

NoBattery == [battery_percentage |-> None, is_charging |-> FALSE, battery_time_remaining |-> None]

\* a thread that is not inside update_file_data_and_notify, the audio callback
\* or notify_clients
ThrIdle ==
    [pc |-> "idle", new |-> DataAtStart, data_changed |-> FALSE,
     msg |-> DataAtStart, ver |-> 0, todo |-> <<>>, disconnected |-> <<>>]

CLine(kind, data, ver) == [kind |-> kind, data |-> data, ver |-> ver]

C_CanSend(c) == c_sock[c].peer /\ c_sock[c].srv

InitC ==
    /\ c_clock = 0
    /\ c_env = 0
    /\ current_data = DataAtStart
    /\ c_ver = 0
    /\ last_battery_update = 0
    /\ f_call = [force |-> FALSE, current_time |-> 0, last_before |-> 0 - RefreshInterval,
                 did_read |-> TRUE, backlight_percent |-> SysfsAtStart.backlight,
                 stored_before |-> NoBattery]
    /\ clients = <<>>
    /\ c_sock = [c \in Conns |-> [born |-> FALSE, peer |-> FALSE, srv |-> FALSE]]
    /\ c_recv = [c \in Conns |-> <<>>]
    /\ c_thr = [th \in Threads |-> ThrIdle]
    /\ c_h = [c \in Conns |-> [pc |-> "none", msg |-> DataAtStart, ver |-> 0]]
    /\ data_lock = "free"
    /\ c_hist = <<DataAtStart>>
    /\ c_down = "up"

\* the four field assignments of lines 450-453
FileMerge(data, bat, backlight) ==
    [data EXCEPT !.battery_percentage = bat.battery_percentage,
                 !.is_charging = bat.is_charging,
                 !.battery_time_remaining = bat.battery_time_remaining,
                 !.backlight_percentage = backlight]

\* a plausible slip: the forced refresh still waits for the window
ShouldUpdateBattery_ForceWaits(force_battery_update, current_time, last) ==
    force_battery_update /\ (current_time - last) >= RefreshInterval

\* line 435: should_update_battery
ShouldUpdateBattery(force_battery_update, current_time, last) ==
    force_battery_update \/ (current_time - last) >= RefreshInterval

\* update_file_data_and_notify, lines 428-449, up to the entry of the locked
\* block: read the clock and the backlight files; read the battery files and
\* restart the window, or keep the stored battery values; take data_lock.
\* Only this thread writes the battery and backlight fields and
\* last_battery_update, so these steps commute with every step of the other
\* threads and are one action. The assignments follow in Assign.
update_file_data_and_notify(force_battery_update) ==
    /\ c_thr["file"].pc = "idle"
    /\ c_down = "up"
    /\ data_lock = "free"
    /\ \E backlight_percent \in BacklightReadings, reading \in BatteryReadings :
          LET current_time == c_clock
              should_update_battery ==
                  ShouldUpdateBattery(force_battery_update, current_time, last_battery_update)
              bat == IF should_update_battery THEN reading ELSE StoredBattery
              new == FileMerge(current_data, bat, backlight_percent)
              seen == [bl |-> backlight_percent, bat |-> bat]
              had  == [bl |-> current_data.backlight_percentage, bat |-> StoredBattery]
          IN /\ should_update_battery \/ reading = StoredBattery
             /\ MayRead(seen, had)
             /\ c_env' = Counted(seen, had)
             /\ last_battery_update' =
                   IF should_update_battery THEN current_time ELSE last_battery_update
             /\ f_call' = [force |-> force_battery_update, current_time |-> current_time,
                           last_before |-> last_battery_update,
                           did_read |-> should_update_battery,
                           backlight_percent |-> backlight_percent,
                           stored_before |-> StoredBattery]
             /\ c_thr' = [c_thr EXCEPT !["file"] = [ThrIdle EXCEPT !.pc = "assign", !.new = new]]
    /\ data_lock' = "file"
    /\ UNCHANGED <<c_clock, current_data, c_ver, clients, c_sock, c_recv, c_h,
                   c_hist, c_down, varsNotC>>

\* inotify_event_loop, lines 469-479: a watched-file event or the 30 s timeout
F_Inotify == update_file_data_and_notify(TRUE)

\* the three field assignments of lines 229-237 (a missing device keeps the
\* stored value; the mixer here always has a speaker and a microphone)
AudioMerge(data, m) ==
    [data EXCEPT !.volume_percentage = m.volume,
                 !.speaker_muted = m.speaker_muted,
                 !.mic_muted = m.mic_muted]

\* the mixer emits "changed"; _on_audio_state_changed, lines 225-228, runs on
\* the GLib thread and enters `with self.data_lock`
A_StateChanged ==
    /\ c_thr["audio"].pc = "idle"
    /\ c_down = "up"
    /\ data_lock = "free"
    /\ data_lock' = "audio"
    /\ c_thr' = [c_thr EXCEPT !["audio"].pc = "query"]
    /\ UNCHANGED <<c_clock, c_env, current_data, c_ver, last_battery_update, f_call,
                   clients, c_sock, c_recv, c_h, c_hist, c_down, varsNotC>>

\* _on_audio_state_changed, lines 229-237, still inside `with self.data_lock`:
\* read speaker.volume, speaker.muted and microphone.muted from the audio
\* service, compare and assign; then the lock is released
A_Query ==
    /\ c_thr["audio"].pc = "query"
    /\ \E m \in MixerStates :
          /\ MayRead(m, StoredAudio)
          /\ c_env' = Counted(m, StoredAudio)
          /\ c_thr' = [c_thr EXCEPT !["audio"] =
                          [ThrIdle EXCEPT !.pc = "assign", !.new = AudioMerge(current_data, m)]]
    /\ UNCHANGED <<c_clock, current_data, c_ver, last_battery_update, f_call, clients,
                   c_sock, c_recv, c_h, data_lock, c_hist, c_down, varsNotC>>

\* the fields a thread compares and assigns, in the order of the source
\* (lines 450-453 and 232-237)
AssignOrder(th) ==
    IF th = "file"
    THEN <<"battery_percentage", "is_charging", "battery_time_remaining", "backlight_percentage">>
    ELSE <<"volume_percentage", "speaker_muted", "mic_muted">>

\* the fields of the order whose stored value differs from the new one
Differing(th) ==
    {k \in 1..Len(AssignOrder(th)) :
        current_data[AssignOrder(th)[k]] # c_thr[th].new[AssignOrder(th)[k]]}

\* the locked block with notify_clients called whether or not a field changed
Assign_AlwaysNotify(th) ==
    /\ c_thr[th].pc = "assign"
    /\ IF Differing(th) # {}
       THEN LET k == CHOOSE k \in Differing(th) : \A m \in Differing(th) : k <= m
                field == AssignOrder(th)[k]
            IN  /\ current_data' = [current_data EXCEPT ![field] = c_thr[th].new[field]]
                /\ c_thr' = [c_thr EXCEPT ![th].data_changed = TRUE]
                /\ UNCHANGED <<c_ver, data_lock, c_hist>>
       ELSE /\ data_lock' = "free"
            /\ c_ver' = IF c_thr[th].data_changed THEN c_ver + 1 ELSE c_ver
            /\ c_hist' = IF c_thr[th].data_changed THEN Append(c_hist, current_data) ELSE c_hist
            /\ c_thr' = [c_thr EXCEPT ![th] = [ThrIdle EXCEPT !.pc = "copy"]]
            /\ UNCHANGED current_data
    /\ UNCHANGED <<c_clock, c_env, last_battery_update, f_call, clients, c_sock, c_recv,
                   c_h, c_down, varsNotC>>

\* inside the locked block: the next `if stored != new: stored, data_changed =
\* new, True`; behind the last one the lock is released and notify_clients
\* is called if data_changed (lines 455-458 and 238)
Assign(th) ==
    /\ c_thr[th].pc = "assign"
    /\ IF Differing(th) # {}
       THEN LET k == CHOOSE k \in Differing(th) : \A m \in Differing(th) : k <= m
                field == AssignOrder(th)[k]
            IN  /\ current_data' = [current_data EXCEPT ![field] = c_thr[th].new[field]]
                /\ c_thr' = [c_thr EXCEPT ![th].data_changed = TRUE]
                /\ UNCHANGED <<c_ver, data_lock, c_hist>>
       ELSE /\ data_lock' = "free"
            /\ c_ver' = IF c_thr[th].data_changed THEN c_ver + 1 ELSE c_ver
            /\ c_hist' = IF c_thr[th].data_changed THEN Append(c_hist, current_data) ELSE c_hist
            /\ c_thr' = [c_thr EXCEPT ![th] =
                            IF c_thr[th].data_changed THEN [ThrIdle EXCEPT !.pc = "copy"]
                            ELSE ThrIdle]
            /\ UNCHANGED current_data
    /\ UNCHANGED <<c_clock, c_env, last_battery_update, f_call, clients, c_sock, c_recv,
                   c_h, c_down, varsNotC>>

\* notify_clients, lines 485-486: copy the snapshot and the registry under data_lock
N_Copy(th) ==
    /\ c_thr[th].pc = "copy"
    /\ data_lock = "free"
    /\ c_thr' = [c_thr EXCEPT ![th] =
                    [@ EXCEPT !.pc = "send", !.msg = current_data, !.ver = c_ver,
                              !.todo = clients, !.disconnected = <<>>]]
    /\ UNCHANGED <<c_clock, c_env, current_data, c_ver, last_battery_update, f_call,
                   clients, c_sock, c_recv, c_h, data_lock, c_hist, c_down, varsNotC>>

\* notify_clients, lines 487-489: sendall to the next socket of the copy
N_Send(th) ==
    /\ c_thr[th].pc = "send"
    /\ IF c_thr[th].todo # <<>>
       THEN LET c == Head(c_thr[th].todo) IN
            IF C_CanSend(c)
            THEN /\ c_recv' = [c_recv EXCEPT ![c] =
                                  Append(@, CLine("broadcast", c_thr[th].msg, c_thr[th].ver))]
                 /\ c_thr' = [c_thr EXCEPT ![th].todo = Tail(@)]
            ELSE /\ c_recv' = c_recv
                 /\ c_thr' = [c_thr EXCEPT ![th].todo = Tail(@),
                                           ![th].disconnected = Append(@, c)]
       ELSE /\ c_recv' = c_recv
            /\ c_thr' = [c_thr EXCEPT ![th].pc = "remove"]
    /\ UNCHANGED <<c_clock, c_env, current_data, c_ver, last_battery_update, f_call,
                   clients, c_sock, c_h, data_lock, c_hist, c_down, varsNotC>>

RECURSIVE RemoveAll(_, _)
RemoveAll(s, gone) ==
    IF gone = <<>> THEN s ELSE RemoveAll(RemoveFirst(s, Head(gone)), Tail(gone))

\* the removal without the close
N_Remove_NoClose(th) ==
    /\ c_thr[th].pc = "remove"
    /\ c_thr[th].disconnected = <<>> \/ data_lock = "free"
    /\ clients' = RemoveAll(clients, c_thr[th].disconnected)
    /\ c_thr' = [c_thr EXCEPT ![th] = ThrIdle]
    /\ UNCHANGED <<c_clock, c_env, current_data, c_ver, last_battery_update, f_call,
                   c_sock, c_recv, c_h, data_lock, c_hist, c_down, varsNotC>>

\* notify_clients, lines 490-493: under data_lock, remove and close every failed
\* socket that is still registered
N_Remove(th) ==
    /\ c_thr[th].pc = "remove"
    /\ c_thr[th].disconnected = <<>> \/ data_lock = "free"
    /\ LET gone == c_thr[th].disconnected IN
          /\ clients' = RemoveAll(clients, gone)
          /\ c_sock' = [c \in Conns |->
                          IF InSeq(c, gone) /\ InSeq(c, clients)
                          THEN [c_sock[c] EXCEPT !.srv = FALSE] ELSE c_sock[c]]
    /\ c_thr' = [c_thr EXCEPT ![th] = ThrIdle]
    /\ UNCHANGED <<c_clock, c_env, current_data, c_ver, last_battery_update, f_call,
                   c_recv, c_h, data_lock, c_hist, c_down, varsNotC>>

\* accept_clients, lines 510-512: accept, append under data_lock, start the handler
C_Accept ==
    /\ \E c \in Conns :
          /\ c_down # "cleaned"
          /\ data_lock = "free"
          /\ ~c_sock[c].born
          /\ \A d \in Conns : d < c => c_sock[d].born
          /\ c_sock' = [c_sock EXCEPT ![c] = [born |-> TRUE, peer |-> TRUE, srv |-> TRUE]]
          /\ clients' = Append(clients, c)
          /\ c_h' = [c_h EXCEPT ![c].pc = "msg"]
    /\ UNCHANGED <<c_clock, c_env, current_data, c_ver, last_battery_update, f_call,
                   c_recv, c_thr, data_lock, c_hist, c_down, varsNotC>>

\* the peer closes its end of the connection
C_PeerClose(c) ==
    /\ c_sock[c].born /\ c_sock[c].peer
    /\ c_sock' = [c_sock EXCEPT ![c].peer = FALSE]
    /\ UNCHANGED <<c_clock, c_env, current_data, c_ver, last_battery_update, f_call,
                   clients, c_recv, c_thr, c_h, data_lock, c_hist, c_down, varsNotC>>

\* the same statement outside the lock
H_Message_NoLock(c) ==
    /\ c_h[c].pc = "msg"
    /\ c_h' = [c_h EXCEPT ![c] = [pc |-> "send", msg |-> current_data, ver |-> c_ver]]
    /\ UNCHANGED <<c_clock, c_env, current_data, c_ver, last_battery_update, f_call,
                   clients, c_sock, c_recv, c_thr, data_lock, c_hist, c_down, varsNotC>>

\* handle_client, line 496: initial_message = json.dumps(self.current_data), under data_lock
H_Message(c) ==
    /\ c_h[c].pc = "msg"
    /\ data_lock = "free"
    /\ c_h' = [c_h EXCEPT ![c] = [pc |-> "send", msg |-> current_data, ver |-> c_ver]]
    /\ UNCHANGED <<c_clock, c_env, current_data, c_ver, last_battery_update, f_call,
                   clients, c_sock, c_recv, c_thr, data_lock, c_hist, c_down, varsNotC>>

\* handle_client, line 498: client_socket.sendall(initial_message)
H_Send(c) ==
    /\ c_h[c].pc = "send"
    /\ IF C_CanSend(c)
       THEN /\ c_recv' = [c_recv EXCEPT ![c] = Append(@, CLine("initial", c_h[c].msg, c_h[c].ver))]
            /\ c_h' = [c_h EXCEPT ![c] = [pc |-> "recv", msg |-> DataAtStart, ver |-> 0]]
       ELSE /\ c_recv' = c_recv
            /\ c_h' = [c_h EXCEPT ![c] = [pc |-> "finally", msg |-> DataAtStart, ver |-> 0]]
    /\ UNCHANGED <<c_clock, c_env, current_data, c_ver, last_battery_update, f_call,
                   clients, c_sock, c_thr, data_lock, c_hist, c_down, varsNotC>>

\* handle_client, lines 499-500: recv returns b'' once the peer has closed, and
\* the loop ends (or recv raises) once the server end has been closed
H_RecvEnd(c) ==
    /\ c_h[c].pc = "recv"
    /\ ~c_sock[c].peer \/ ~c_sock[c].srv
    /\ c_h' = [c_h EXCEPT ![c].pc = "finally"]
    /\ UNCHANGED <<c_clock, c_env, current_data, c_ver, last_battery_update, f_call,
                   clients, c_sock, c_recv, c_thr, data_lock, c_hist, c_down, varsNotC>>

\* handle_client, lines 502-503: under data_lock, remove the socket if registered
H_Finally(c) ==
    /\ c_h[c].pc = "finally"
    /\ data_lock = "free"
    /\ clients' = RemoveFirst(clients, c)
    /\ c_h' = [c_h EXCEPT ![c].pc = "close"]
    /\ UNCHANGED <<c_clock, c_env, current_data, c_ver, last_battery_update, f_call,
                   c_sock, c_recv, c_thr, data_lock, c_hist, c_down, varsNotC>>

\* handle_client, lines 504-505: client_socket.close()
H_Close(c) ==
    /\ c_h[c].pc = "close"
    /\ c_sock' = [c_sock EXCEPT ![c].srv = FALSE]
    /\ c_h' = [c_h EXCEPT ![c].pc = "done"]
    /\ UNCHANGED <<c_clock, c_env, current_data, c_ver, last_battery_update, f_call,
                   clients, c_recv, c_thr, data_lock, c_hist, c_down, varsNotC>>

\* the peer writes a chunk of bytes to its connection
C_PeerSend(c) ==
    /\ c_sock[c].born /\ c_sock[c].peer
    /\ c_in[c].pending + c_in[c].read < MaxInbound
    /\ c_in' = [c_in EXCEPT ![c].pending = @ + 1]
    /\ UNCHANGED <<varsC, varsNotC_N>>

\* the loop left at the first chunk
H_RecvData_Break(c) ==
    /\ c_h[c].pc = "recv"
    /\ c_sock[c].srv
    /\ c_in[c].pending > 0
    /\ c_in' = [c_in EXCEPT ![c] = [pending |-> @.pending - 1, read |-> @.read + 1]]
    /\ c_h' = [c_h EXCEPT ![c].pc = "finally"]
    /\ UNCHANGED <<c_clock, c_env, current_data, c_ver, last_battery_update, f_call,
                   clients, c_sock, c_recv, c_thr, data_lock, c_hist, c_down, varsNotC_N>>

\* handle_client, lines 499-500: recv(1024) returns a chunk, which is
\* dropped; the loop condition `self.running and fileno() != -1` is
\* evaluated again and the thread is back in recv, or leaves the loop when
\* running has been set to False
H_RecvData(c) ==
    /\ c_h[c].pc = "recv"
    /\ c_sock[c].srv
    /\ c_in[c].pending > 0
    /\ c_in' = [c_in EXCEPT ![c] = [pending |-> @.pending - 1, read |-> @.read + 1]]
    /\ c_h' = [c_h EXCEPT ![c].pc = IF c_down = "up" THEN "recv" ELSE "finally"]
    /\ UNCHANGED <<c_clock, c_env, current_data, c_ver, last_battery_update, f_call,
                   clients, c_sock, c_recv, c_thr, data_lock, c_hist, c_down, varsNotC_N>>

\* signal_handler, lines 199-202: running = False, quit the GLib loop
C_SignalHandler ==
    /\ c_down = "up"
    /\ c_down' = "signalled"
    /\ UNCHANGED <<c_clock, c_env, current_data, c_ver, last_battery_update, f_call,
                   clients, c_sock, c_recv, c_thr, c_h, data_lock, c_hist, varsNotC>>

\* run, line 524, and cleanup, lines 528-545: under data_lock close every
\* registered socket and clear the registry; close the listening socket
cleanup ==
    /\ c_down = "signalled"
    /\ data_lock = "free"
    /\ c_down' = "cleaned"
    /\ c_sock' = [c \in Conns |->
                    IF InSeq(c, clients) THEN [c_sock[c] EXCEPT !.srv = FALSE] ELSE c_sock[c]]
    /\ clients' = <<>>
    /\ UNCHANGED <<c_clock, c_env, current_data, c_ver, last_battery_update, f_call,
                   c_recv, c_thr, c_h, data_lock, c_hist, varsNotC>>

\* the caller of update_file_data_and_notify chooses force_battery_update
F_Call == \E force_battery_update \in BOOLEAN : update_file_data_and_notify(force_battery_update)

\* the waits tried between two calls: just inside and just at the window
SleepChoices == {RefreshInterval - 1, RefreshInterval}

\* time passes while the inotify thread waits (select with a 30 s timeout)
F_Sleep ==
    /\ c_thr["file"].pc = "idle"
    /\ \E d \in SleepChoices :
          /\ c_clock + d <= MaxClock
          /\ c_clock' = c_clock + d
    /\ UNCHANGED <<c_env, current_data, c_ver, last_battery_update, f_call,
                   clients, c_sock, c_recv, c_thr, c_h, data_lock, c_hist, c_down, varsNotC>>

C_Notify == \E th \in Threads : N_Copy(th) \/ N_Send(th) \/ N_Remove(th)

C_Assign == \E th \in Threads : Assign(th)

C_Handler ==
    \E c \in Conns : H_Message(c) \/ H_Send(c) \/ H_RecvEnd(c) \/ H_Finally(c) \/ H_Close(c)

C_Peer == \E c \in Conns : C_PeerClose(c)

NextC ==
    \/ F_Inotify
    \/ A_StateChanged
    \/ A_Query
    \/ C_Assign
    \/ C_Notify
    \/ C_Accept
    \/ C_Peer
    \/ C_Handler
    \/ C_SignalHandler
    \/ cleanup

C_Inbound == \E c \in Conns : C_PeerSend(c) \/ H_RecvData(c)

\* the daemon serving clients that also write to their connections (the
\* file thread is the only source of changes here)
NextInbound ==
    \/ F_Inotify
    \/ C_Assign
    \/ C_Notify
    \/ C_Accept
    \/ C_Peer
    \/ C_Handler
    \/ C_Inbound
    \/ C_SignalHandler
    \/ cleanup

\* C24: bytes written by a client are ignored while the daemon is running:
\* the step in which recv returns them changes neither the stored snapshot
\* nor the registry, closes nothing, sends no line and leaves the handler in
\* its loop; a handler leaves the loop only when its peer has closed, its
\* own end has been closed or running is False.
C24_InboundBytesAreIgnored ==
    [][ \A c \in Conns :
          /\ (c_in'[c].read > c_in[c].read /\ c_down = "up") =>
                /\ current_data' = current_data
                /\ clients' = clients
                /\ c_sock' = c_sock
                /\ c_recv' = c_recv
                /\ c_h'[c].pc = "recv"
          /\ (c_h[c].pc = "recv" /\ c_h'[c].pc # "recv") =>
                (~c_sock[c].peer \/ ~c_sock[c].srv \/ c_down # "up") ]_vars

\* a client has written twice, both chunks have been read and dropped, and
\* the connection is registered and open at both ends
C24_Witness ==
    \E c \in Conns :
        /\ c_in[c].read = MaxInbound
        /\ InSeq(c, clients)
        /\ c_sock[c].peer /\ c_sock[c].srv
        /\ c_h[c].pc = "recv"

\* update_file_data_and_notify called with either argument at any time
NextFile ==
    \/ F_Sleep
    \/ F_Call
    \/ C_Assign
    \/ C_Notify

\* ----------------------------------------------------------------------
\*  Claims about the serving combined daemon
\* ----------------------------------------------------------------------

\* C4: a client never receives a broadcast line carrying an older snapshot
\* after a broadcast line carrying a newer one.
C4_BroadcastsArriveInOrder ==
    \A c \in Conns :
        \A i, j \in 1..Len(c_recv[c]) :
            (i < j /\ c_recv[c][i].kind = "broadcast" /\ c_recv[c][j].kind = "broadcast")
                => c_recv[c][i].ver <= c_recv[c][j].ver

\* no update, broadcast or initial send is in progress in the combined daemon
C_Quiescent ==
    /\ \A th \in Threads : c_thr[th].pc = "idle"
    /\ \A c \in Conns : c_h[c].pc \notin {"msg", "send"}
    /\ data_lock = "free"

\* C35: once no state change is pending and every send in progress has
\* completed, the last line received by each registered client is the
\* daemon's current snapshot, also when the handler's initial send raced
\* with a broadcast to the same client.
C35_ClientsConverge ==
    C_Quiescent =>
        \A c \in Conns :
            (InSeq(c, clients) /\ C_CanSend(c) /\ c_h[c].pc = "recv") =>
                (c_recv[c] # <<>> /\ Last(c_recv[c]).data = current_data)

\* C17: every line sent, initial snapshot or broadcast, carries a value that
\* current_data had at an instant at which no update was in progress (the
\* value numbered by the line's version); no line mixes fields from before
\* and after an update.
C17_LinesAreWholeSnapshots ==
    \A c \in Conns : \A k \in 1..Len(c_recv[c]) :
        /\ c_recv[c][k].ver + 1 \in 1..Len(c_hist)
        /\ c_recv[c][k].data = c_hist[c_recv[c][k].ver + 1]

\* a client has a line taken after an update that changed two fields at once
C17_Witness ==
    \E c \in Conns : \E k \in 1..Len(c_recv[c]) :
        LET ver == c_recv[c][k].ver IN
        /\ ver >= 1
        /\ c_hist[ver + 1].battery_percentage # c_hist[ver].battery_percentage
        /\ c_hist[ver + 1].backlight_percentage # c_hist[ver].backlight_percentage

StoredFile ==
    <<current_data.battery_percentage, current_data.is_charging,
      current_data.battery_time_remaining, current_data.backlight_percentage>>

\* C18: an audio update leaves the battery and backlight fields as they are,
\* a file update leaves the three audio fields as they are, nothing changes
\* outside an update, and an update ends in a broadcast if and only if it
\* has changed a field.
C18_PartialUpdate ==
    [][ /\ data_lock = "audio" => StoredFile' = StoredFile
        /\ data_lock = "file" => StoredAudio' = StoredAudio
        /\ data_lock = "free" => current_data' = current_data
        /\ \A th \in Threads :
              (c_thr[th].pc = "assign" /\ c_thr'[th].pc # "assign") =>
                  (c_thr'[th].pc = "copy" <=> current_data # Last(c_hist)) ]_vars

\* an audio update has changed the volume and is about to broadcast, after a
\* file update had changed the backlight
C18_Witness ==
    /\ c_thr["audio"].pc = "copy"
    /\ current_data.volume_percentage # None
    /\ current_data.backlight_percentage # SysfsAtStart.backlight

\* a step that performs a call which can block: sendall in notify_clients,
\* sendall or recv in handle_client, the file reads of
\* update_file_data_and_notify, the reads of the audio service
BlockingCall ==
    \/ \E th \in Threads : c_thr[th].pc = "send" /\ c_thr'[th] # c_thr[th]
    \/ \E c \in Conns : c_h[c].pc \in {"send", "recv"} /\ c_h'[c] # c_h[c]
    \/ f_call' # f_call
    \/ c_thr["audio"].pc = "query" /\ c_thr'["audio"].pc # "query"

\* C14: no thread performs a blocking call (socket send or recv, file read,
\* mixer query) while data_lock is held.
C14_NoBlockingCallUnderLock ==
    [][ BlockingCall => data_lock = "free" ]_vars

\* ----------------------------------------------------------------------
\*  More claims about the serving time daemon
\* ----------------------------------------------------------------------

\* the steps of the monitor_time thread
T_Monitor ==
    \/ T_MonitorSample
    \/ T_MonitorCompare
    \/ T_NotifyMessage
    \/ T_NotifySend
    \/ T_NotifyRemove
    \/ T_NotifyClose

\* C25: monitor_time does not end: an exception that leaves notify_clients is
\* absorbed and followed by another iteration, and a minute change sampled
\* after an exception is stored and broadcast like any other.
C25_MonitorSurvivesExceptions ==
    /\ t_mon.raised ~> (t_mon.pc = "compare")
    /\ (t_mon.absorbed /\ t_mon.pc = "notify") ~> (t_mon.pc = "send")
    /\ [][ /\ t_mon'.raised => t_mon'.pc \in {"sample", "compare"}
           /\ (t_mon.absorbed /\ t_mon.pc = "compare" /\ t_mon'.pc # "compare"
               /\ TimeChanged(t_mon.new, current_time_info)) =>
                  (current_time_info' = t_mon.new /\ t_mon'.pc = "notify") ]_vars

\* after an absorbed exception the monitor is broadcasting a later minute
C25_Witness ==
    /\ t_mon.absorbed
    /\ t_mon.pc = "send"
    /\ t_mon.msg = current_time_info
    /\ t_mon.msg = get_formatted_time(t_now)

\* the steps of the handle_client thread of socket c
T_HandlerOf(c) ==
    \/ T_HandlerMessage(c)
    \/ T_HandlerSend(c)
    \/ T_HandlerLoopExit(c)
    \/ T_HandlerFinally(c)
    \/ T_HandlerRemove(c)
    \/ T_HandlerClose(c)

\* one daemon is followed: the time daemon or the combined daemon
NextServing ==
    \/ InitC /\ NextT
    \/ InitT /\ NextC

\* the server end of c is closed and c is still registered (time daemon)
T_ClosedButRegistered(c) == t_sock[c].born /\ ~t_sock[c].srv /\ InSeq(c, t_clients)

\* c has left the registry with its server end open and no thread is about
\* to close it (time daemon)
T_RemovedNeverClosed(c) ==
    /\ t_sock[c].born /\ t_sock[c].srv /\ ~InSeq(c, t_clients)
    /\ t_h[c].pc # "close"
    /\ ~(t_mon.pc = "close" /\ Head(t_mon.disconnected) = c)

\* the same two for the combined daemon; notify_clients and cleanup close
\* inside the locked block that removes, handle_client closes behind it
C_ClosedButRegistered(c) == c_sock[c].born /\ ~c_sock[c].srv /\ InSeq(c, clients)

C_RemovedNeverClosed(c) ==
    /\ c_sock[c].born /\ c_sock[c].srv /\ ~InSeq(c, clients)
    /\ c_h[c].pc # "close"

\* C16: a connection whose socket the server has closed is not in the
\* registry, and a connection removed from the registry is closed or is just
\* about to be closed by the thread that removed it, whichever of the
\* broadcaster and the handler detects the failure first.
C16_RegistryMatchesSockets ==
    /\ \A c \in Socks : ~T_ClosedButRegistered(c) /\ ~T_RemovedNeverClosed(c)
    /\ \A c \in Conns : ~C_ClosedButRegistered(c) /\ ~C_RemovedNeverClosed(c)

\* both threads detected the failure: the broadcaster removed and closed the
\* socket and the handler's own remove then raised ValueError
C16_Witness ==
    \E c \in Socks : t_h[c].pc = "dead" /\ ~t_sock[c].srv /\ ~InSeq(c, t_clients)

\* C15: the registry is not mutated by another thread while notify_clients
\* is iterating over it for a broadcast.
C15_RegistryStableDuringBroadcast ==
    [][ t_mon.pc = "send" => t_clients' = t_clients ]_vars

\* every line is the record of one clock sample
OneSample(data) ==
    /\ \E t \in ClockValues : data = get_formatted_time(t)
    /\ data.full_display = <<data.time_str, data.day_name, data.date_str>>

\* the client has been sent the record of sample t
GotMinute(c, t) ==
    \E k \in 1..Len(t_recv[c]) : t_recv[c][k].data = get_formatted_time(t)

\* C13: a client that has its initial snapshot and stays connected while the
\* daemon broadcasts a new minute eventually receives a line with that
\* minute, and every line sent is the record of one clock sample.
C13_NewMinuteReachesClient ==
    /\ [](\A c \in Socks : \A k \in 1..Len(t_recv[c]) : OneSample(t_recv[c][k].data))
    /\ \A c \in Socks : \A t \in ClockValues :
          ( /\ t_mon.pc = "send"
            /\ t_mon.msg = get_formatted_time(t)
            /\ c \in t_mon.atStart
            /\ t_recv[c] # <<>>
            /\ t_recv[c][1].kind = "initial" )
          ~> (~t_sock[c].peer \/ GotMinute(c, t))

\* ======================================================================
\*  TIME DAEMON, processes from main() to exit
\* ======================================================================
\* The window daemon's main, __init__, signal_handler, cleanup and run are
\* the same statements on /tmp/window_service.sock.

\* pc: the statement the main thread is at; in_run: inside the try block of
\* run(); call: which invocation of cleanup is running (0 = none)
Proc(pc, in_run, call) == [pc |-> pc, in_run |-> in_run, call |-> call]

InitL ==
    /\ l_inst = [i \in Insts |-> Proc("off", FALSE, 0)]
    /\ l_path = 0

L_Goto(i, pc) ==
    l_inst' = [l_inst EXCEPT ![i].pc = pc]

\* the process is gone: the kernel closes its descriptors, files stay
L_Exit(i) ==
    l_inst' = [l_inst EXCEPT ![i] = Proc("exited", FALSE, 0)]

\* the listening socket of process i accepts a connect: listen() has been
\* called (line 32) and neither close() nor process exit has happened
L_Listening(i) == l_inst[i].pc \in {"install", "installed", "serving"}

\* bound by bind() (line 31) and not yet closed
L_Bound(i) == l_inst[i].pc \in {"listen", "install", "installed", "serving"}

\* the signal handlers of lines 34-35 are installed
L_Handlers(i) == l_inst[i].pc \in {"installed", "serving"}

\* main, line 157: os.path.exists
L_MainExists(i) ==
    /\ l_inst[i].pc = "off"
    /\ L_Goto(i, IF l_path # 0 THEN "probe" ELSE "init_exists")
    /\ UNCHANGED <<l_path, varsNotL>>

\* main, lines 158-162: connect to the path; exit(0) if something accepts.
\* The except clause is entered from a file nothing accepts on
\* ("stale_unlink") or from a file that is gone by now ("gone_unlink")
L_Probe(i) ==
    /\ l_inst[i].pc = "probe"
    /\ IF l_path # 0 /\ L_Listening(l_path)
         THEN L_Exit(i)
         ELSE L_Goto(i, IF l_path # 0 THEN "stale_unlink" ELSE "gone_unlink")
    /\ UNCHANGED <<l_path, varsNotL>>

\* main, lines 163-164: os.unlink inside the except clause; a missing file
\* raises FileNotFoundError out of main
L_StaleUnlink(i) ==
    /\ l_inst[i].pc \in {"stale_unlink", "gone_unlink"}
    /\ IF l_path # 0
         THEN L_Goto(i, "init_exists") /\ l_path' = 0
         ELSE L_Exit(i) /\ UNCHANGED l_path
    /\ UNCHANGED varsNotL

\* __init__, line 27: os.path.exists
L_InitExists(i) ==
    /\ l_inst[i].pc = "init_exists"
    /\ L_Goto(i, IF l_path # 0 THEN "init_unlink" ELSE "bind")
    /\ UNCHANGED <<l_path, varsNotL>>

\* __init__, line 28: os.unlink, unguarded
L_InitUnlink(i) ==
    /\ l_inst[i].pc = "init_unlink"
    /\ IF l_path # 0
         THEN L_Goto(i, "bind") /\ l_path' = 0
         ELSE L_Exit(i) /\ UNCHANGED l_path
    /\ UNCHANGED varsNotL

\* __init__, lines 30-31: socket(), bind(); EADDRINUSE if the file exists
L_Bind(i) ==
    /\ l_inst[i].pc = "bind"
    /\ IF l_path = 0
         THEN L_Goto(i, "listen") /\ l_path' = i
         ELSE L_Exit(i) /\ UNCHANGED l_path
    /\ UNCHANGED varsNotL

\* __init__, line 32: listen(5)
L_Listen(i) ==
    /\ l_inst[i].pc = "listen"
    /\ L_Goto(i, "install")
    /\ UNCHANGED <<l_path, varsNotL>>

\* __init__, lines 34-35: signal.signal for SIGTERM and SIGINT
L_Install(i) ==
    /\ l_inst[i].pc = "install"
    /\ L_Goto(i, "installed")
    /\ UNCHANGED <<l_path, varsNotL>>

\* main, line 165 / run, lines 142-147: enter the try block, start
\* monitor_time, call accept_clients
L_Run(i) ==
    /\ l_inst[i].pc = "installed"
    /\ l_inst' = [l_inst EXCEPT ![i] = Proc("serving", TRUE, 0)]
    /\ UNCHANGED <<l_path, varsNotL>>

\* SIGTERM or SIGINT: with the default disposition the process is killed;
\* with the handlers installed signal_handler (lines 39-43) sets running to
\* False and calls cleanup
L_Signal(i) ==
    /\ l_inst[i].pc \in {"probe", "stale_unlink", "gone_unlink", "init_exists", "init_unlink", "bind",
                         "listen", "install", "installed", "serving"}
    /\ IF L_Handlers(i)
         THEN l_inst' = [l_inst EXCEPT ![i].pc = "cleanup_close", ![i].call = 1]
         ELSE L_Exit(i)
    /\ UNCHANGED <<l_path, varsNotL>>

\* cleanup, line 47: server_socket.close() (no effect on a closed socket)
L_CleanupClose(i) ==
    /\ l_inst[i].pc = "cleanup_close"
    /\ L_Goto(i, "cleanup_exists")
    /\ UNCHANGED <<l_path, varsNotL>>

\* where cleanup returns to: signal_handler's sys.exit(0) raises SystemExit
\* in the main thread; inside run() its finally clause (line 154) calls
\* cleanup once more, outside run() the process exits
L_AfterCleanup(i) ==
    IF l_inst[i].in_run /\ l_inst[i].call = 1
    THEN l_inst' = [l_inst EXCEPT ![i].pc = "cleanup_close", ![i].call = 2]
    ELSE L_Exit(i)

\* cleanup, line 48: os.path.exists
L_CleanupExists(i) ==
    /\ l_inst[i].pc = "cleanup_exists"
    /\ IF l_path # 0 THEN L_Goto(i, "cleanup_unlink") ELSE L_AfterCleanup(i)
    /\ UNCHANGED <<l_path, varsNotL>>

\* cleanup, line 49: os.unlink; an error is caught and logged (lines 50-51)
L_CleanupUnlink(i) ==
    /\ l_inst[i].pc = "cleanup_unlink"
    /\ l_path' = 0
    /\ L_AfterCleanup(i)
    /\ UNCHANGED varsNotL

NextL ==
    \E i \in Insts :
        \/ L_MainExists(i)
        \/ L_Probe(i)
        \/ L_StaleUnlink(i)
        \/ L_InitExists(i)
        \/ L_InitUnlink(i)
        \/ L_Bind(i)
        \/ L_Listen(i)
        \/ L_Install(i)
        \/ L_Run(i)
        \/ L_Signal(i)
        \/ L_CleanupClose(i)
        \/ L_CleanupExists(i)
        \/ L_CleanupUnlink(i)

\* C6: at any time at most one process of the time daemon has a socket
\* bound to the well-known path, whatever the interleaving of two starts.
C6_AtMostOneBound ==
    \A i, j \in Insts : (L_Bound(i) /\ L_Bound(j)) => i = j

\* the probe of process i has failed (lines 163-164) on a file that exists
\* and on which no process accepts
L_ProbeFailed(i) == l_inst[i].pc = "stale_unlink"

\* C32: a starting instance whose probe fails on a stale socket file removes
\* the file and goes on to bind and serve: at the os.unlink of line 164 the
\* file is there to be removed, so the instance does not end there.
C32_StaleSocketIsReplaced ==
    \A i \in Insts : L_ProbeFailed(i) => l_path # 0

\* the second call of cleanup: entered from run()'s finally clause
L_SecondCleanup(i) ==
    /\ l_inst[i].pc \in {"cleanup_close", "cleanup_exists", "cleanup_unlink"}
    /\ l_inst[i].call = 2

\* C8: cleanup invoked again after it has completed changes no state: the
\* second invocation of a process leaves the socket path as it finds it.
C8_SecondCleanupChangesNothing ==
    [][ \A i \in Insts :
          (L_SecondCleanup(i) /\ l_inst'[i] # l_inst[i]) => l_path' = l_path ]_vars

\* ======================================================================
\*  COMBINED DAEMON, processes from main() to exit
\* ======================================================================

\* pc: the statement the main thread is at; fd: the lock file its lock_file
\* is open on (0 = not open); sig: signal_handler has run (running is
\* False); live: the process that was serving when this one was started;
\* failed: the startup step that failed ("lock", "bind") or "none"; status:
\* the exit status of the process, None while it has not ended
KProc(pc, fd, sig, live) ==
    [pc |-> pc, fd |-> fd, sig |-> sig, live |-> live, failed |-> "none", status |-> None]

\* the status of a process killed by SIGTERM, as a shell reports it
Killed == 143

InitK ==
    /\ k_inst = [i \in Insts |-> KProc("off", 0, FALSE, 0)]
    /\ k_path = 0
    /\ k_lock = 0
    /\ k_holder = [n \in Insts |-> 0]

K_Goto(i, pc) ==
    k_inst' = [k_inst EXCEPT ![i].pc = pc]

\* flock(LOCK_UN), or the kernel dropping the lock with the last descriptor
K_Released(i) == [n \in Insts |-> IF k_holder[n] = i THEN 0 ELSE k_holder[n]]

\* the process is gone: the kernel closes its descriptors, files stay
K_Exit(i, status) ==
    /\ k_inst' = [k_inst EXCEPT ![i].pc = "exited", ![i].fd = 0, ![i].status = status]
    /\ k_holder' = K_Released(i)

\* run() has started accept_clients and no signal has been handled
K_Serving(i) == k_inst[i].pc = "serving" /\ ~k_inst[i].sig

\* bound and listening (line 190), not yet closed by cleanup
K_Bound(i) == k_inst[i].pc \in {"install", "init_rest", "main_check", "run_check",
                                "serving", "cleanup"}

\* the signal handlers of line 193 are installed; __init__ returns before
\* that line when bind or listen has failed
K_Handlers(i) ==
    /\ k_inst[i].failed = "none"
    /\ k_inst[i].pc \in {"init_rest", "main_check", "run_check", "serving",
                          "cleanup", "cleanup_exists", "cleanup_unlink",
                          "unlock", "rm_exists", "rm_lock"}

\* the process is started; main, line 548: open(lock_path, 'w') opens the
\* file at the path or creates one
K_Start(i) ==
    /\ k_inst[i].pc = "off"
    /\ \E j \in (IF \E n \in Insts : K_Serving(n) THEN {n \in Insts : K_Serving(n)} ELSE {0}) :
          k_inst' = [k_inst EXCEPT ![i] =
                        KProc("flock", IF k_lock # 0 THEN k_lock ELSE i, FALSE, j)]
    /\ k_lock' = IF k_lock # 0 THEN k_lock ELSE i
    /\ UNCHANGED <<k_path, k_holder, varsNotK>>

\* main, lines 549-550: flock(LOCK_EX | LOCK_NB), exit(1) if it is held
K_Flock(i) ==
    /\ k_inst[i].pc = "flock"
    /\ IF k_holder[k_inst[i].fd] = 0
         THEN /\ K_Goto(i, "init_exists")
              /\ k_holder' = [k_holder EXCEPT ![k_inst[i].fd] = i]
         ELSE /\ k_inst' = [k_inst EXCEPT ![i].pc = "exited", ![i].fd = 0,
                                           ![i].failed = "lock", ![i].status = 1]
              /\ k_holder' = K_Released(i)
    /\ UNCHANGED <<k_path, k_lock, varsNotK>>

\* __init__, line 185: os.path.exists
K_InitExists(i) ==
    /\ k_inst[i].pc = "init_exists"
    /\ K_Goto(i, IF k_path # 0 THEN "init_unlink" ELSE "bind")
    /\ UNCHANGED <<k_path, k_lock, k_holder, varsNotK>>

\* __init__, lines 186-187: os.unlink, OSError passed over
K_InitUnlink(i) ==
    /\ k_inst[i].pc = "init_unlink"
    /\ k_path' = 0
    /\ K_Goto(i, "bind")
    /\ UNCHANGED <<k_lock, k_holder, varsNotK>>

\* __init__, lines 188-192: socket(), bind(), listen(5); on failure running
\* is set to False and __init__ returns, and main (line 553) skips run()
K_Bind(i) ==
    /\ k_inst[i].pc = "bind"
    /\ IF k_path = 0
         THEN K_Goto(i, "install") /\ k_path' = i
         ELSE /\ k_inst' = [k_inst EXCEPT ![i].pc = "unlock", ![i].failed = "bind"]
              /\ UNCHANGED k_path
    /\ UNCHANGED <<k_lock, k_holder, varsNotK>>

\* __init__, line 193: signal.signal for SIGTERM and SIGINT
K_Install(i) ==
    /\ k_inst[i].pc = "install"
    /\ K_Goto(i, "init_rest")
    /\ UNCHANGED <<k_path, k_lock, k_holder, varsNotK>>

\* __init__, lines 194-197: init_audio_monitoring, the first
\* update_file_data_and_notify, setup_inotify_watches
K_InitRest(i) ==
    /\ k_inst[i].pc = "init_rest"
    /\ K_Goto(i, "main_check")
    /\ UNCHANGED <<k_path, k_lock, k_holder, varsNotK>>

\* main, lines 553-554: if service.running: service.run()
K_MainCheck(i) ==
    /\ k_inst[i].pc = "main_check"
    /\ K_Goto(i, IF k_inst[i].sig THEN "unlock" ELSE "run_check")
    /\ UNCHANGED <<k_path, k_lock, k_holder, varsNotK>>

\* run, lines 518-520: cleanup and return if not running, else start the
\* inotify and accept threads
K_RunCheck(i) ==
    /\ k_inst[i].pc = "run_check"
    /\ K_Goto(i, IF k_inst[i].sig THEN "cleanup" ELSE "serving")
    /\ UNCHANGED <<k_path, k_lock, k_holder, varsNotK>>

\* run, lines 521-524: the wait loop ends when running is False
K_LoopExit(i) ==
    /\ k_inst[i].pc = "serving"
    /\ k_inst[i].sig
    /\ K_Goto(i, "cleanup")
    /\ UNCHANGED <<k_path, k_lock, k_holder, varsNotK>>

\* cleanup, lines 529-541: quit the GLib loop, clean the audio service,
\* close the inotify descriptor, close and clear the clients, close the
\* listening socket
K_Cleanup(i) ==
    /\ k_inst[i].pc = "cleanup"
    /\ K_Goto(i, "cleanup_exists")
    /\ UNCHANGED <<k_path, k_lock, k_holder, varsNotK>>

\* cleanup, line 542: os.path.exists
K_CleanupExists(i) ==
    /\ k_inst[i].pc = "cleanup_exists"
    /\ K_Goto(i, IF k_path # 0 THEN "cleanup_unlink" ELSE "unlock")
    /\ UNCHANGED <<k_path, k_lock, k_holder, varsNotK>>

\* cleanup, lines 543-544: os.unlink, OSError passed over
K_CleanupUnlink(i) ==
    /\ k_inst[i].pc = "cleanup_unlink"
    /\ k_path' = 0
    /\ K_Goto(i, "unlock")
    /\ UNCHANGED <<k_lock, k_holder, varsNotK>>

\* main, line 556: flock(LOCK_UN); lock_file.close()
K_Unlock(i) ==
    /\ k_inst[i].pc = "unlock"
    /\ k_inst' = [k_inst EXCEPT ![i].pc = "rm_exists", ![i].fd = 0]
    /\ k_holder' = K_Released(i)
    /\ UNCHANGED <<k_path, k_lock, varsNotK>>

\* main, line 557: os.path.exists(lock_path)
K_RemoveExists(i) ==
    /\ k_inst[i].pc = "rm_exists"
    /\ IF k_lock # 0 THEN K_Goto(i, "rm_lock") /\ UNCHANGED k_holder ELSE K_Exit(i, 0)
    /\ UNCHANGED <<k_path, k_lock, varsNotK>>

\* main, line 558: os.remove(lock_path), then the process ends
K_RemoveLock(i) ==
    /\ k_inst[i].pc = "rm_lock"
    /\ k_lock' = 0
    /\ K_Exit(i, 0)
    /\ UNCHANGED <<k_path, varsNotK>>

\* SIGTERM or SIGINT: with the default disposition the process is killed;
\* with the handler installed signal_handler (lines 199-202) sets running
\* to False and quits the GLib loop
K_Signal(i) ==
    /\ k_inst[i].pc \notin {"off", "exited"}
    /\ ~k_inst[i].sig
    /\ IF K_Handlers(i)
         THEN k_inst' = [k_inst EXCEPT ![i].sig = TRUE] /\ UNCHANGED k_holder
         ELSE K_Exit(i, Killed)
    /\ UNCHANGED <<k_path, k_lock, varsNotK>>

\* the statements of process i, one at a time
K_Step(i) ==
    \/ K_Flock(i)
    \/ K_InitExists(i)
    \/ K_InitUnlink(i)
    \/ K_Bind(i)
    \/ K_Install(i)
    \/ K_InitRest(i)
    \/ K_MainCheck(i)
    \/ K_RunCheck(i)
    \/ K_LoopExit(i)
    \/ K_Cleanup(i)
    \/ K_CleanupExists(i)
    \/ K_CleanupUnlink(i)
    \/ K_Unlock(i)
    \/ K_RemoveExists(i)
    \/ K_RemoveLock(i)

NextK ==
    \E i \in Insts :
        \/ K_Start(i)
        \/ K_Signal(i)
        \/ K_Step(i)

\* C5: a process started while another process is live and accepting neither
\* unlinks the socket path nor binds it, as long as that process is serving.
C5_SecondInstanceLeavesSocketAlone ==
    [][ \A i \in Insts :
          (k_inst[i].live # 0 /\ K_Serving(k_inst[i].live)) =>
              /\ ~(k_inst[i].pc = "init_unlink" /\ k_inst'[i].pc = "bind")
              /\ ~(k_inst[i].pc = "bind" /\ k_inst'[i].pc = "install") ]_vars

\* process i holds an exclusive flock, on whichever lock file it opened
K_HoldsLock(i) == \E n \in Insts : k_holder[n] = i

\* C38: whatever the interleaving of processes starting and exiting, an
\* exiting process releasing its flock and then removing the lock file, at
\* most one process at a time holds the exclusive lock and goes on to unlink
\* and bind the socket path.
C38_OneLockHolder ==
    \A i, j \in Insts : (K_HoldsLock(i) /\ K_HoldsLock(j)) => i = j

\* after the signal: the process has ended, its listening socket is closed,
\* its socket file is unlinked and it holds no lock
K_ShutDown(i) ==
    /\ k_inst[i].pc = "exited"
    /\ k_path # i
    /\ \A n \in Insts : k_holder[n] # i

\* C7: a process whose signal handler has run eventually has closed its
\* listening socket, unlinked its socket path and released the lock.
C7_SignalLeadsToShutDown ==
    \A i \in Insts : k_inst[i].sig ~> K_ShutDown(i)

\* C19: a process whose bind or listen failed, or which was refused the
\* lock, never serves a client and ends with a non-zero exit status.
C19_StartupFailureExitsNonZero ==
    \A i \in Insts :
        k_inst[i].failed # "none" =>
            /\ k_inst[i].pc # "serving"
            /\ k_inst[i].pc = "exited" => k_inst[i].status \notin {None, 0}

\* the half of C19 that the code keeps: a process refused the lock ends with
\* status 1 and has served nobody
C19_LockRefusedExitsOne ==
    \A i \in Insts :
        k_inst[i].failed = "lock" => k_inst[i].pc = "exited" /\ k_inst[i].status = 1

\* ======================================================================
\*  _parse_battery_status
\* ======================================================================
\* A Python str is a sequence of one-character strings.

UpperCase == <<"A", "B", "C", "D", "E", "F", "G", "H", "I", "J", "K", "L", "M", "N", "O", "P", "Q", "R", "S", "T", "U", "V", "W", "X", "Y", "Z">>
LowerCase == <<"a", "b", "c", "d", "e", "f", "g", "h", "i", "j", "k", "l", "m", "n", "o", "p", "q", "r", "s", "t", "u", "v", "w", "x", "y", "z">>
Whitespace == {" ", "\n", "\t"}

\* str.lower on one character
LowerChar(ch) ==
    IF \E k \in 1..Len(UpperCase) : UpperCase[k] = ch
    THEN LowerCase[CHOOSE k \in 1..Len(UpperCase) : UpperCase[k] = ch]
    ELSE ch

\* str.lower
lower(str) == [k \in 1..Len(str) |-> LowerChar(str[k])]

\* str.strip: drop leading and trailing whitespace
RECURSIVE lstrip(_)
lstrip(str) ==
    IF str # <<>> /\ Head(str) \in Whitespace THEN lstrip(Tail(str)) ELSE str

RECURSIVE rstrip(_)
rstrip(str) ==
    IF str # <<>> /\ str[Len(str)] \in Whitespace
    THEN rstrip(SubSeq(str, 1, Len(str) - 1))
    ELSE str

strip(str) == rstrip(lstrip(str))

\* str.startswith
RECURSIVE startswith(_, _)
startswith(str, prefix) ==
    IF prefix = <<>> THEN TRUE
    ELSE IF str = <<>> THEN FALSE
    ELSE Head(str) = Head(prefix) /\ startswith(Tail(str), Tail(prefix))

\* the operator `state in status_clean`: a scan for the first occurrence
RECURSIVE contains(_, _)
contains(str, sub) ==
    IF startswith(str, sub) THEN TRUE
    ELSE IF str = <<>> THEN FALSE
    ELSE contains(Tail(str), sub)

\* lines 296-297
charging_states == << <<"c", "h", "a", "r", "g", "i", "n", "g">> >>

\* the vocabulary without its second phrase
discharging_states_OneWord == << <<"d", "i", "s", "c", "h", "a", "r", "g", "i", "n", "g">> >>

discharging_states == << <<"d", "i", "s", "c", "h", "a", "r", "g", "i", "n", "g">>,
                         <<"n", "o", "t", " ", "c", "h", "a", "r", "g", "i", "n", "g">> >>

\* the loops of lines 303-306 and 308-311: the flag is set at the first
\* state found in status_clean
RECURSIVE AnyStateIn(_, _)
AnyStateIn(states, status_clean) ==
    IF states = <<>> THEN FALSE
    ELSE IF contains(status_clean, Head(states)) THEN TRUE
    ELSE AnyStateIn(Tail(states), status_clean)

\* _parse_battery_status, lines 288-317
parse_battery_status(str) ==
    LET status_clean   == lower(strip(str))
        is_charging    == AnyStateIn(charging_states, status_clean)
        is_discharging == AnyStateIn(discharging_states, status_clean)
    IN  is_charging /\ ~is_discharging

\* what the status file is put together from
Pieces ==
    { <<"C", "h", "a", "r", "g", "i", "n", "g">>,
      <<"D", "i", "s", "c", "h", "a", "r", "g", "i", "n", "g">>,
      <<"N", "o", "t">>,
      <<"N", "o", "t", " ", "c", "h", "a", "r", "g", "i", "n", "g">>,
      <<"c", "h", "a", "r", "g", "i", "n", "g">>,
      <<"F", "u", "l", "l">>,
      <<"U", "n", "k", "n", "o", "w", "n">>,
      <<" ">>,
      <<"\n">> }

InitP ==
    /\ status_str = <<>>
    /\ p_n = 0
    /\ p_ret = <<>>

\* the kernel writes the status file
P_Write ==
    /\ p_n < MaxPieces
    /\ \E piece \in Pieces : status_str' = status_str \o piece
    /\ p_n' = p_n + 1
    /\ p_ret' = <<>>
    /\ UNCHANGED varsNotP

\* get_battery_info_internal, line 404: is_charging = _parse_battery_status(status_str)
P_Parse ==
    /\ p_ret = <<>>
    /\ p_ret' = <<parse_battery_status(status_str)>>
    /\ UNCHANGED <<status_str, p_n, varsNotP>>

NextP ==
    \/ P_Write
    \/ P_Parse

\* w occurs in str
Occurs(w, str) ==
    \E k \in 1..(Len(str) - Len(w) + 1) : SubSeq(str, k, k + Len(w) - 1) = w

\* C10: _parse_battery_status returns true exactly when the lower-cased
\* status contains "charging" and contains neither "discharging" nor
\* "not charging"; "Charging" gives true; "Not charging", "Discharging",
\* "Full" and "Unknown" give false.
C10_ParseBatteryStatus ==
    p_ret # <<>> =>
        LET low == lower(status_str) IN
        /\ p_ret[1] = ( /\ Occurs(<<"c", "h", "a", "r", "g", "i", "n", "g">>, low)
                        /\ ~Occurs(<<"d", "i", "s", "c", "h", "a", "r", "g", "i", "n", "g">>, low)
                        /\ ~Occurs(<<"n", "o", "t", " ", "c", "h", "a", "r", "g", "i", "n", "g">>, low) )
        /\ status_str = <<"C", "h", "a", "r", "g", "i", "n", "g">> => p_ret[1] = TRUE
        /\ status_str \in { <<"N", "o", "t", " ", "c", "h", "a", "r", "g", "i", "n", "g">>,
                            <<"D", "i", "s", "c", "h", "a", "r", "g", "i", "n", "g">>,
                            <<"F", "u", "l", "l">>,
                            <<"U", "n", "k", "n", "o", "w", "n">> } => p_ret[1] = FALSE

\* "Not charging" followed by a newline has been parsed
C10_Witness ==
    /\ p_ret = <<FALSE>>
    /\ status_str = <<"N", "o", "t", " ", "c", "h", "a", "r", "g", "i", "n", "g">> \o <<"\n">>

\* ======================================================================
\*  _calculate_time_from_files
\* ======================================================================
\* The file contents are integers for which the double arithmetic of lines
\* 346, 350, 368 and 372 is exact (powers of two as divisors), so that
\* int((a / b) * 3600) is the integer quotient of a * 3600 by b.

\* a file of the battery directory: missing (None) or one of two contents
FileContents(lo, hi) == {None, lo, hi}

BatteryDirs ==
    [ time_to_empty : FileContents(0, 1800),
      time_to_full  : {None, 600},
      power_now     : FileContents(0, 2),
      energy_now    : FileContents(0, 5),
      energy_full   : {None, 8},
      current_now   : FileContents(0, 4),
      charge_now    : {None, 3},
      charge_full   : {None, 6} ]

StatusTexts ==
    { <<"C", "h", "a", "r", "g", "i", "n", "g">>,
      <<"D", "i", "s", "c", "h", "a", "r", "g", "i", "n", "g">>,
      <<"N", "o", "t", " ", "c", "h", "a", "r", "g", "i", "n", "g">>,
      <<"F", "u", "l", "l">> }

NoFiles == [f \in {"time_to_empty", "time_to_full", "power_now", "energy_now",
                   "energy_full", "current_now", "charge_now", "charge_full"} |-> None]

\* `return time_seconds if time_seconds > 0 else None`
PositiveOrNone(time_seconds) == IF time_seconds > 0 THEN time_seconds ELSE None

\* int((amount / rate) * 3600) for rate > 0
SecondsAt(amount, rate) ==
    IF amount >= 0 THEN (amount * 3600) \div rate ELSE 0 - (((0 - amount) * 3600) \div rate)

\* Method 3, lines 357-376: current_now with charge_now / charge_full
TimeFromCharge(files, is_charging) ==
    IF files.current_now # None /\ files.charge_now # None /\ files.current_now > 0
    THEN IF is_charging /\ files.charge_full # None
         THEN <<PositiveOrNone(SecondsAt(files.charge_full - files.charge_now, files.current_now))>>
         ELSE IF ~is_charging
         THEN <<PositiveOrNone(SecondsAt(files.charge_now, files.current_now))>>
         ELSE <<>>
    ELSE <<>>

\* Method 2, lines 335-354: power_now with energy_now / energy_full
TimeFromEnergy(files, is_charging) ==
    IF files.power_now # None /\ files.energy_now # None /\ files.power_now > 0
    THEN IF is_charging /\ files.energy_full # None
         THEN <<PositiveOrNone(SecondsAt(files.energy_full - files.energy_now, files.power_now))>>
         ELSE IF ~is_charging
         THEN <<PositiveOrNone(SecondsAt(files.energy_now, files.power_now))>>
         ELSE <<>>
    ELSE <<>>

\* Method 1, lines 323-332: the direct time file
TimeFromFile(files, is_charging, status_low) ==
    LET content == IF is_charging THEN files.time_to_full
                   ELSE IF contains(status_low, <<"d", "i", "s", "c", "h", "a", "r", "g", "i", "n", "g">>)
                        THEN files.time_to_empty
                        ELSE None
    IN  IF content # None /\ content > 0 THEN <<content>> ELSE <<>>

\* _calculate_time_from_files, lines 319-379: the first method that returns
calculate_time_from_files(files, is_charging, status_low) ==
    LET direct == TimeFromFile(files, is_charging, status_low)
        energy == TimeFromEnergy(files, is_charging)
        charge == TimeFromCharge(files, is_charging)
    IN  IF direct # <<>> THEN direct[1]
        ELSE IF energy # <<>> THEN energy[1]
        ELSE IF charge # <<>> THEN charge[1]
        ELSE None

\* get_battery_info_internal, lines 404-411: the time is calculated when
\* charging or when the status says discharging
TimeRemaining(files, status) ==
    LET is_charging == parse_battery_status(status)
        status_low  == lower(status)
    IN  IF is_charging \/ contains(status_low, <<"d", "i", "s", "c", "h", "a", "r", "g", "i", "n", "g">>)
        THEN calculate_time_from_files(files, is_charging, status_low)
        ELSE None

InitB ==
    /\ b_files = NoFiles
    /\ b_status = <<>>
    /\ b_ret = <<>>

\* the kernel shows a battery directory and a status
B_Sysfs ==
    /\ b_status = <<>>
    /\ \E files \in BatteryDirs : b_files' = files
    /\ \E status \in StatusTexts : b_status' = status
    /\ b_ret' = <<>>
    /\ UNCHANGED varsNotB

\* get_battery_info_internal, lines 409-411
B_TimeRemaining ==
    /\ b_status # <<>>
    /\ b_ret = <<>>
    /\ b_ret' = <<TimeRemaining(b_files, b_status)>>
    /\ UNCHANGED <<b_files, b_status, varsNotB>>

NextB ==
    \/ B_Sysfs
    \/ B_TimeRemaining

\* C11: with the battery discharging, no time_to_empty file and power_now
\* and energy_now present, the time remaining is energy_now * 3600 / power_now
\* rounded down if power_now > 0, and null if power_now = 0.
C11_TimeFromPowerAndEnergy ==
    ( /\ b_ret # <<>>
      /\ b_status = <<"D", "i", "s", "c", "h", "a", "r", "g", "i", "n", "g">>
      /\ b_files.time_to_empty = None
      /\ b_files.power_now # None
      /\ b_files.energy_now # None ) =>
        /\ b_files.power_now > 0 =>
               b_ret[1] = (b_files.energy_now * 3600) \div b_files.power_now
        /\ b_files.power_now = 0 => b_ret[1] = None

\* the value of a method that yields a positive one, else None
Yield(method) == IF method # <<>> /\ method[1] # None /\ method[1] > 0 THEN method[1] ELSE None

\* the first positive value along the chain of the three methods, else None
FirstYield(files, is_charging, status_low) ==
    LET direct == Yield(TimeFromFile(files, is_charging, status_low))
        energy == Yield(TimeFromEnergy(files, is_charging))
        charge == Yield(TimeFromCharge(files, is_charging))
    IN  IF direct # None THEN direct
        ELSE IF energy # None THEN energy
        ELSE charge

\* _calculate_time_from_files is called for the directory and status shown
B_Calculated ==
    /\ b_ret # <<>>
    /\ \/ parse_battery_status(b_status)
       \/ contains(lower(b_status), <<"d", "i", "s", "c", "h", "a", "r", "g", "i", "n", "g">>)

\* C28: the result of _calculate_time_from_files is the value of the first
\* of the three methods, in order, that yields a positive value, and null
\* only when none of them does; it is never zero or negative.
C28_FallbackChain ==
    B_Calculated =>
        /\ b_ret[1] = None \/ b_ret[1] > 0
        /\ b_ret[1] = FirstYield(b_files, parse_battery_status(b_status), lower(b_status))

\* ======================================================================
\*  WINDOW DAEMON, the workspaces list
\* ======================================================================

\* a workspace as the compositor reports it; -1 is a special workspace
Workspace(id, windows) == [id |-> id, windows |-> windows]

CompositorWorkspaces ==
    { Workspace(0 - 1, 0), Workspace(1, 1), Workspace(2, 0), Workspace(3, 2) }

\* the lists the compositor can return
RECURSIVE ListsUpTo(_)
ListsUpTo(n) ==
    IF n = 0 THEN {<<>>}
    ELSE LET shorter == ListsUpTo(n - 1)
         IN  shorter \cup { Append(l, ws) : l \in {x \in shorter : Len(x) = n - 1},
                                           ws \in CompositorWorkspaces }

CompositorLists == ListsUpTo(MaxWs)

\* lines 152-161: keep the entries with ws_id >= 0, in the order received
RECURSIVE FilterWorkspaces(_)
FilterWorkspaces(data) ==
    IF data = <<>> THEN <<>>
    ELSE IF Head(data).id >= 0
         THEN <<Head(data)>> \o FilterWorkspaces(Tail(data))
         ELSE FilterWorkspaces(Tail(data))

\* one step of the stable sort: ws goes behind every entry whose id is not larger
RECURSIVE InsertById(_, _)
InsertById(sorted, ws) ==
    IF sorted = <<>> THEN <<ws>>
    ELSE IF Head(sorted).id <= ws.id
         THEN <<Head(sorted)>> \o InsertById(Tail(sorted), ws)
         ELSE <<ws>> \o sorted

\* a sort that leaves the list as it is
SortById_Unsorted(list) == list

\* line 164: filtered_workspaces.sort(key=lambda ws: ws["id"]), a stable sort
RECURSIVE SortById(_)
SortById(list) ==
    IF list = <<>> THEN <<>>
    ELSE InsertById(SortById(SubSeq(list, 1, Len(list) - 1)), list[Len(list)])

\* get_hyprland_all_workspaces_list, lines 148-168 (no data or an empty
\* list gives the empty list)
get_hyprland_all_workspaces_list(data) == SortById(FilterWorkspaces(data))

InitW ==
    /\ w_fetched = <<>>
    /\ current_display_state_data = <<>>
    /\ w_sent = <<>>

\* monitor_display_state, lines 228-243: query the compositor, store and
\* broadcast the state if it differs from the stored one; notify_clients
\* (line 247) serialises the stored state
monitor_display_state ==
    \E data \in CompositorLists :
        LET new_state_data == get_hyprland_all_workspaces_list(data)
        IN  /\ w_fetched' = data
            /\ current_display_state_data' = new_state_data
            /\ w_sent' = IF new_state_data # current_display_state_data
                         THEN <<new_state_data>>
                         ELSE w_sent
            /\ UNCHANGED varsNotW

NextW == monitor_display_state

Ids(list) == [k \in 1..Len(list) |-> list[k].id]

Count(ws, list) == Cardinality({k \in 1..Len(list) : list[k] = ws})

SortedNonNegative(list) ==
    /\ \A k \in 1..Len(list) : list[k].id >= 0
    /\ \A k, m \in 1..Len(list) : k < m => list[k].id <= list[m].id

\* C12: the exposed workspaces list holds exactly the entries of the
\* compositor's list with id >= 0, each as often as the compositor gave it,
\* in ascending order of id (ids -1, 3, 1, 2 give 1, 2, 3); no line sent
\* holds a negative id or an out-of-order pair.
C12_WorkspacesFilteredAndSorted ==
    /\ SortedNonNegative(current_display_state_data)
    /\ \A ws \in CompositorWorkspaces :
          Count(ws, current_display_state_data) = IF ws.id >= 0 THEN Count(ws, w_fetched) ELSE 0
    /\ Ids(w_fetched) = <<0 - 1, 3, 1, 2>> => Ids(current_display_state_data) = <<1, 2, 3>>
    /\ w_sent # <<>> => SortedNonNegative(w_sent[1])

\* the compositor returned ids -1, 3, 1, 2 and the list 1, 2, 3 was sent
C12_Witness ==
    /\ Ids(w_fetched) = <<0 - 1, 3, 1, 2>>
    /\ w_sent = <<current_display_state_data>>
    /\ Ids(w_sent[1]) = <<1, 2, 3>>

\* C9: a call of update_file_data_and_notify without force less than
\* RefreshInterval seconds after the last battery read reads no battery file
\* and leaves the three battery fields and the window as they were; a forced
\* call reads the battery whatever time has passed; every battery read
\* restarts the window; once the call's assignments are done the backlight stored is this call's
\* reading.
C9_BatteryRateLimit ==
    LET elapsed == f_call.current_time - f_call.last_before IN
    /\ (~f_call.force /\ elapsed < RefreshInterval) =>
            /\ ~f_call.did_read
            /\ StoredBattery = f_call.stored_before
            /\ last_battery_update = f_call.last_before
    /\ f_call.force => f_call.did_read
    /\ f_call.did_read => last_battery_update = f_call.current_time
    /\ c_thr["file"].pc # "assign" =>
            current_data.backlight_percentage = f_call.backlight_percent

\* an unforced call 29 s after the last read kept the battery and stored a new backlight
C9_Witness ==
    /\ ~f_call.force
    /\ ~f_call.did_read
    /\ f_call.current_time - f_call.last_before = RefreshInterval - 1
    /\ current_data.backlight_percentage # SysfsAtStart.backlight
    /\ c_thr["file"].pc = "copy"

\* ======================================================================
\*  ISLANDS, connecting to the daemon socket
\* ======================================================================
\* time_island.py, window_island.py, system_stats_island.py and
\* battery_island.py each hold one service_socket and reconnect through
\* connect_to_service / retry_connection.  One island is followed.

Islands == {"time", "window", "stats", "battery"}

\* the islands whose except clause of connect() calls start_service
HasStartService(kind) == kind \in {"time", "window", "stats"}

\* kind: the island's class ("none" before it is constructed)
\* service_socket: "None", "socket" (a socket object, not connected) or
\*    "connected"
\* pc: "connect" the connect thread is started; "connecting" it is inside
\*    socket.connect; "listen" listen_for_updates is in recv; "source" a
\*    GLib timeout or idle source will call retry_connection; "rest"
\*    no thread and no source of the island is pending
\* start_ok: start_service gets as far as Popen (the daemon script is beside
\*    the island and can be chmod'ed and spawned)
\* spawned: start_service has called Popen
\* failed: a connection attempt has failed or a connection was lost, and
\*    no connection attempt has been made since
InitI ==
    /\ island = [kind |-> "none", service_socket |-> "None", pc |-> "off",
                 start_ok |-> FALSE, spawned |-> FALSE, failed |-> FALSE]
    /\ i_up = FALSE

\* __init__ of the island: service_socket = None, connect_to_service()
\* starts the connect thread
I_Construct ==
    /\ island.pc = "off"
    /\ \E kind \in Islands, ok \in BOOLEAN :
          island' = [island EXCEPT !.kind = kind, !.start_ok = ok, !.pc = "connect"]
    /\ UNCHANGED <<i_up, varsNotI>>

\* connect(): self.service_socket = socket.socket(...), then connect is called
I_Socket ==
    /\ island.pc = "connect"
    /\ island' = [island EXCEPT !.service_socket = "socket", !.pc = "connecting",
                                !.failed = FALSE]
    /\ UNCHANGED <<i_up, varsNotI>>

\* start_service of the time island (lines 74-94) and of the window island
\* (61-82): the retry is scheduled after Popen, inside the try
StartServiceThenRetry(isl) ==
    IF isl.start_ok THEN [isl EXCEPT !.spawned = TRUE, !.pc = "source"]
                    ELSE [isl EXCEPT !.pc = "rest"]

\* start_service of the system stats island (lines 90-99): Popen if the
\* script exists, any error logged
StartService(isl) ==
    IF isl.start_ok THEN [isl EXCEPT !.spawned = TRUE] ELSE isl

\* the except clause of connect(), per island
ConnectFailed(isl) ==
    CASE isl.kind \in {"time", "window"} ->
             StartServiceThenRetry([isl EXCEPT !.service_socket = "None"])
      [] isl.kind = "stats" ->
             [StartService(isl) EXCEPT !.pc = "source"]
      [] isl.kind = "battery" ->
             [isl EXCEPT !.service_socket = "None", !.pc = "source"]

\* connect(): socket.connect returns and the listen thread is started, or
\* it raises and the except clause runs
I_Connect ==
    /\ island.pc = "connecting"
    /\ island' = IF i_up
                   THEN [island EXCEPT !.service_socket = "connected", !.pc = "listen"]
                   ELSE [ConnectFailed(island) EXCEPT !.failed = TRUE]
    /\ UNCHANGED <<i_up, varsNotI>>

\* retry_connection, called once by the GLib source: connect_to_service()
\* if service_socket is None (`is None` or `not`: a socket object is true)
retry_connection ==
    /\ island.pc = "source"
    /\ island' = [island EXCEPT !.pc = IF island.service_socket = "None"
                                         THEN "connect" ELSE "rest"]
    /\ UNCHANGED <<i_up, varsNotI>>

\* listen_for_updates: recv returns nothing or raises; the finally clause
\* sets service_socket to None and schedules retry_connection
I_Lost ==
    /\ island.pc = "listen"
    /\ island' = [island EXCEPT !.service_socket = "None", !.pc = "source", !.failed = TRUE]
    /\ UNCHANGED <<i_up, varsNotI>>

\* a daemon starts listening on the socket path
D_Up ==
    /\ island.pc # "off"
    /\ ~i_up
    /\ i_up' = TRUE
    /\ UNCHANGED <<island, varsNotI>>

\* the daemon ends; a connected island finds out in recv
D_Down ==
    /\ i_up
    /\ i_up' = FALSE
    /\ UNCHANGED <<island, varsNotI>>

\* the steps of the island's own threads and of the GLib main loop
I_Step ==
    \/ I_Socket
    \/ I_Connect
    \/ retry_connection

NextI ==
    \/ I_Construct
    \/ I_Step
    \/ I_Lost
    \/ D_Up
    \/ D_Down

\* the island's start_service, where it has one, can spawn the daemon
I_CanSpawn == island.kind # "none" /\ (HasStartService(island.kind) => island.start_ok)

\* C20: after a failed connection attempt or a lost connection a further
\* connection attempt is eventually made, and if the daemon is reachable
\* from some point on the island is connected again and again.
C20_IslandReconnects ==
    /\ (I_CanSpawn /\ island.failed) ~> ~island.failed
    /\ <>[](I_CanSpawn /\ i_up) => []<>(island.pc = "listen")

\* ======================================================================
\*  WINDOW DAEMON, serving state
\* ======================================================================
\* monitor_display_state, notify_clients, handle_client and accept_clients of
\* window_service.py.  The display state is one of two values.  No lock is
\* taken anywhere in the source.

DisplayStates == {0, 1}

\* a connection: born (accepted), peer ("open", "stalled" = open but no longer
\* reading with the socket buffer full, "closed"), srv (the server's end is open)
V_NoSock == [born |-> FALSE, peer |-> "open", srv |-> FALSE]

V_MonIdle == [pc |-> "sample", msg |-> 0, idx |-> 0, disconnected |-> <<>>, raised |-> FALSE]

InitV ==
    /\ v_env = 0
    /\ v_data = 0
    /\ v_clients = <<>>
    /\ v_sock = [c \in Viewers |-> V_NoSock]
    /\ v_last = [c \in Viewers |-> None]
    /\ v_mon = V_MonIdle
    /\ v_h = [c \in Viewers |-> "none"]

\* the compositor's window or workspaces change
V_Change ==
    /\ \E d \in DisplayStates : d # v_env /\ v_env' = d
    /\ UNCHANGED <<v_data, v_clients, v_sock, v_last, v_mon, v_h, varsNotV>>

\* accept_clients, lines 286-294: accept, append, start the handler thread
V_Accept ==
    /\ \E c \in Viewers :
          /\ ~v_sock[c].born
          /\ \A d \in Viewers : d < c => v_sock[d].born
          /\ v_sock' = [v_sock EXCEPT ![c] = [born |-> TRUE, peer |-> "open", srv |-> TRUE]]
          /\ v_clients' = Append(v_clients, c)
          /\ v_h' = [v_h EXCEPT ![c] = "send"]
    /\ UNCHANGED <<v_env, v_data, v_last, v_mon, varsNotV>>

\* the peer closes its end
V_PeerClose(c) ==
    /\ v_sock[c].born /\ v_sock[c].peer # "closed"
    /\ v_sock' = [v_sock EXCEPT ![c].peer = "closed"]
    /\ UNCHANGED <<v_env, v_data, v_clients, v_last, v_mon, v_h, varsNotV>>

\* the peer stops reading and the socket buffer fills up
V_PeerStall(c) ==
    /\ v_sock[c].born /\ v_sock[c].peer = "open"
    /\ v_sock' = [v_sock EXCEPT ![c].peer = "stalled"]
    /\ UNCHANGED <<v_env, v_data, v_clients, v_last, v_mon, v_h, varsNotV>>

\* socket.send on a blocking socket (no timeout is set in the source):
\* it returns, it raises, or it does not come back while the peer is stalled
V_SendReturns(c) == v_sock[c].srv /\ v_sock[c].peer = "open"
V_SendRaises(c)  == ~v_sock[c].srv \/ v_sock[c].peer = "closed"

\* monitor_display_state, lines 232-239: sample, compare; on a difference
\* assign and enter notify_clients (line 247: the message), else sleep 0.1 s
V_Sample ==
    /\ v_mon.pc = "sample"
    /\ IF v_env # v_data
       THEN /\ v_data' = v_env
            /\ v_mon' = [V_MonIdle EXCEPT !.pc = "send", !.msg = v_env]
       ELSE /\ v_data' = v_data
            /\ v_mon' = V_MonIdle
    /\ UNCHANGED <<v_env, v_clients, v_sock, v_last, v_h, varsNotV>>

\* notify_clients, lines 250-254: one turn of `for client in self.clients`,
\* the list iterator indexing the live list
V_NotifySend ==
    /\ v_mon.pc = "send"
    /\ IF v_mon.idx < Len(v_clients)
       THEN LET c == v_clients[v_mon.idx + 1] IN
            /\ V_SendReturns(c) \/ V_SendRaises(c)
            /\ IF V_SendReturns(c)
               THEN /\ v_last' = [v_last EXCEPT ![c] = v_mon.msg]
                    /\ v_mon' = [v_mon EXCEPT !.idx = @ + 1]
               ELSE /\ v_last' = v_last
                    /\ v_mon' = [v_mon EXCEPT !.idx = @ + 1,
                                              !.disconnected = Append(@, c)]
       ELSE /\ v_last' = v_last
            /\ v_mon' = [v_mon EXCEPT !.pc = "remove"]
    /\ UNCHANGED <<v_env, v_data, v_clients, v_sock, v_h, varsNotV>>

\* notify_clients, lines 256-261: self.clients.remove(client), which raises
\* ValueError when the socket is no longer in the list, then client.close();
\* the exception ends notify_clients and is caught in monitor_display_state
\* (lines 241-243), which sleeps 1 s and samples again
V_NotifyRemove ==
    /\ v_mon.pc = "remove"
    /\ IF v_mon.disconnected = <<>>
       THEN /\ v_mon' = V_MonIdle
            /\ UNCHANGED <<v_clients, v_sock>>
       ELSE LET c == Head(v_mon.disconnected) IN
            IF InSeq(c, v_clients)
            THEN /\ v_clients' = RemoveFirst(v_clients, c)
                 /\ v_sock' = [v_sock EXCEPT ![c].srv = FALSE]
                 /\ v_mon' = [v_mon EXCEPT !.disconnected = Tail(@)]
            ELSE /\ v_mon' = [V_MonIdle EXCEPT !.raised = TRUE]
                 /\ UNCHANGED <<v_clients, v_sock>>
    /\ UNCHANGED <<v_env, v_data, v_last, v_h, varsNotV>>

\* handle_client, lines 266-270: send the current state, then sleep in the
\* loop while self.running; a failed send goes to the finally clause
V_HandlerSend(c) ==
    /\ v_h[c] = "send"
    /\ V_SendReturns(c) \/ V_SendRaises(c)
    /\ IF V_SendReturns(c)
       THEN /\ v_last' = [v_last EXCEPT ![c] = v_data]
            /\ v_h' = [v_h EXCEPT ![c] = "loop"]
       ELSE /\ v_last' = v_last
            /\ v_h' = [v_h EXCEPT ![c] = "finally"]
    /\ UNCHANGED <<v_env, v_data, v_clients, v_sock, v_mon, varsNotV>>

\* handle_client, lines 274-280: remove the socket if registered, close it
V_HandlerFinally(c) ==
    /\ v_h[c] = "finally"
    /\ v_clients' = RemoveFirst(v_clients, c)
    /\ v_sock' = [v_sock EXCEPT ![c].srv = FALSE]
    /\ v_h' = [v_h EXCEPT ![c] = "done"]
    /\ UNCHANGED <<v_env, v_data, v_last, v_mon, varsNotV>>

\* the monitor thread
V_Monitor == V_Sample \/ V_NotifySend \/ V_NotifyRemove

\* the handler thread of connection c
V_HandlerOf(c) == V_HandlerSend(c) \/ V_HandlerFinally(c)

V_Handler == \E c \in Viewers : V_HandlerOf(c)

V_Peer == \E c \in Viewers : V_PeerClose(c) \/ V_PeerStall(c)

NextV ==
    \/ V_Change
    \/ V_Accept
    \/ V_Peer
    \/ V_Monitor
    \/ V_Handler

\* C23: after the peer of a connection has closed its end, the daemon
\* eventually removes the connection from the registry and closes its socket.
C23_ClosedPeerIsReaped ==
    \A c \in Viewers :
        (v_sock[c].born /\ v_sock[c].peer = "closed") ~>
            (~InSeq(c, v_clients) /\ ~v_sock[c].srv)

\* C22: notify_clients returns normally to monitor_display_state: no
\* exception leaves it, whatever sends fail and whatever the handler threads
\* remove from the registry meanwhile.
C22_NotifyReturnsNormally == ~v_mon.raised

\* C21: a client whose reads have stalled does not stall the daemon: the
\* stored display state keeps catching up with what the compositor reports
\* (the monitor assigns what it samples, so the two are equal at the end of
\* every sampling step that finds a difference).
C21_StalledClientDoesNotStallDaemon == []<>(v_data = v_env)

InitN == c_in = [c \in Conns |-> [pending |-> 0, read |-> 0]]

\* ======================================================================
\*  TIME DAEMON, the sleep between two evaluations
\* ======================================================================
\* monitor_time, lines 78-81.  The clock is read in ticks; datetime.second is
\* the whole second within the minute.

SecondsPerMinute == 60

TicksPerMinute == SecondsPerMinute * TicksPerSecond

\* datetime.now().second and the minute of a clock reading
second(now) == (now \div TicksPerSecond) % SecondsPerMinute
MinuteOf(now) == now \div TicksPerMinute

\* a plausible slip: one second short
sleep_seconds_OneShort(now) == (SecondsPerMinute - 1) - second(now)

\* line 80: sleep_seconds = 60 - now.second
sleep_seconds(now) == SecondsPerMinute - second(now)

\* pc: "off", "evaluate" (lines 71-76), "now" (line 79), "sleep" (line 81)
\* computed_at: the clock reading of line 79; woke_at: the clock when the
\* latest sleep returned (None before the first); wakes: sleeps returned
InitS ==
    /\ s_clock = 0
    /\ s_thr = [pc |-> "off", sleep_seconds |-> 0, computed_at |-> 0,
                woke_at |-> None, prev_woke_at |-> None]

\* run(): the monitor thread is started at some moment of the first minute
S_Start ==
    /\ s_thr.pc = "off"
    /\ \E t \in 0..(TicksPerMinute - 1) : s_clock' = t
    /\ s_thr' = [s_thr EXCEPT !.pc = "evaluate"]
    /\ UNCHANGED varsNotS

\* lines 71-76: sample, compare, broadcast; this takes some time
S_Evaluate ==
    /\ s_thr.pc = "evaluate"
    /\ \E d \in 0..MaxLatency :
          /\ s_clock + d < MaxMinutes * TicksPerMinute
          /\ s_clock' = s_clock + d
    /\ s_thr' = [s_thr EXCEPT !.pc = "now"]
    /\ UNCHANGED varsNotS

\* lines 79-80: now = datetime.now(); sleep_seconds = 60 - now.second
S_ComputeSleep ==
    /\ s_thr.pc = "now"
    /\ s_thr' = [s_thr EXCEPT !.pc = "sleep", !.sleep_seconds = sleep_seconds(s_clock),
                              !.computed_at = s_clock]
    /\ UNCHANGED <<s_clock, varsNotS>>

\* line 81: time.sleep(sleep_seconds) returns after at least that long
S_Wake ==
    /\ s_thr.pc = "sleep"
    /\ \E late \in 0..MaxLatency :
          LET t == s_thr.computed_at + s_thr.sleep_seconds * TicksPerSecond + late IN
          /\ t < MaxMinutes * TicksPerMinute
          /\ s_clock' = t
          /\ s_thr' = [s_thr EXCEPT !.pc = "evaluate", !.woke_at = t,
                                    !.prev_woke_at = s_thr.woke_at]
    /\ UNCHANGED varsNotS

NextS ==
    \/ S_Start
    \/ S_Evaluate
    \/ S_ComputeSleep
    \/ S_Wake

\* C26: the sleep is 60 minus the current second, between 1 and 60 seconds;
\* the thread wakes in a later minute than the one in which it computed the
\* sleep, and no two wakes fall into the same minute.
C26_SleepsToNextMinute ==
    /\ s_thr.pc = "sleep" =>
          /\ s_thr.sleep_seconds = SecondsPerMinute - second(s_thr.computed_at)
          /\ s_thr.sleep_seconds \in 1..SecondsPerMinute
    /\ s_thr.woke_at # None =>
          /\ MinuteOf(s_thr.woke_at) > MinuteOf(s_thr.computed_at) \/ s_thr.pc = "sleep"
          /\ s_thr.prev_woke_at # None =>
                MinuteOf(s_thr.woke_at) > MinuteOf(s_thr.prev_woke_at)

\* the thread computed its sleep in the last tick of a minute, slept one
\* second and has woken in the minute that follows
C26_Witness ==
    /\ s_thr.pc = "evaluate"
    /\ s_thr.woke_at # None
    /\ s_thr.sleep_seconds = 1
    /\ s_thr.computed_at % TicksPerMinute = TicksPerMinute - 1
    /\ MinuteOf(s_thr.woke_at) = MinuteOf(s_thr.computed_at) + 1

\* ======================================================================
\*  COMBINED DAEMON, the file-watch loop
\* ======================================================================
\* setup_inotify_watches (lines 381-391) and inotify_event_loop (460-482).
\* What update_file_data_and_notify does with force_battery_update is in
\* the serving model above; here it is a call with its argument.

\* inotify_fd when inotify_init1 was not called or failed (line 180, 384)
NoFd == 0 - 1

\* a descriptor returned by inotify_init1
SomeFd == 3

\* pc: "off", "select" (line 471), "sleep" (line 464), "update" (the call of
\* update_file_data_and_notify), "ended" (the loop has been left)
\* woke: what ended the latest wait ("event", "timeout", "poll")
\* read: the events taken by os.read at the latest wake
\* calls: calls of update_file_data_and_notify since the latest wake
\* force: force_battery_update of the latest call
O_Idle(pc) == [pc |-> pc, woke |-> "none", read |-> 0, calls |-> 0, force |-> FALSE]

InitO ==
    /\ o_fd = NoFd
    /\ o_events = 0
    /\ o_running = TRUE
    /\ o_loop = O_Idle("off")

\* setup_inotify_watches: libc or the event struct missing, inotify_init1
\* failing (the descriptor stays -1), or a descriptor with its watches;
\* run() then starts the thread, which tests the descriptor (line 461)
setup_inotify_watches ==
    /\ o_loop.pc = "off"
    /\ \E fd \in {NoFd, SomeFd} :
          /\ o_fd' = fd
          /\ o_loop' = O_Idle(IF fd = NoFd THEN "sleep" ELSE "select")
    /\ UNCHANGED <<o_events, o_running, varsNotO>>

\* a watched file is modified
O_Event ==
    /\ o_fd # NoFd
    /\ o_events < MaxEvents
    /\ o_events' = o_events + 1
    /\ UNCHANGED <<o_fd, o_running, o_loop, varsNotO>>

\* signal_handler: running = False
O_Stop ==
    /\ o_loop.pc # "off"
    /\ o_running
    /\ o_running' = FALSE
    /\ UNCHANGED <<o_fd, o_events, o_loop, varsNotO>>

\* what follows a wait: `if not self.running: break` (line 472, 465)
AfterWait(woke, read) ==
    IF o_running
    THEN [pc |-> "update", woke |-> woke, read |-> read, calls |-> 0, force |-> o_loop.force]
    ELSE [o_loop EXCEPT !.pc = "ended"]

\* lines 471-475: select returns the descriptor as readable; os.read takes
\* the queued events
O_SelectReadable ==
    /\ o_loop.pc = "select"
    /\ o_events > 0
    /\ o_loop' = AfterWait("event", o_events)
    /\ o_events' = IF o_running THEN 0 ELSE o_events
    /\ UNCHANGED <<o_fd, o_running, varsNotO>>

\* the 30 s of select without update
O_SelectTimeout_Continue ==
    /\ o_loop.pc = "select"
    /\ o_events = 0
    /\ o_loop' = [o_loop EXCEPT !.pc = IF o_running THEN "select" ELSE "ended",
                                !.woke = "timeout"]
    /\ UNCHANGED <<o_fd, o_events, o_running, varsNotO>>

\* lines 471-478: no event for 30 s, select returns an empty list
O_SelectTimeout ==
    /\ o_loop.pc = "select"
    /\ o_events = 0
    /\ o_loop' = AfterWait("timeout", 0)
    /\ UNCHANGED <<o_fd, o_events, o_running, varsNotO>>

\* lines 464-465, the fallback: time.sleep(30) returns
O_SleepReturns ==
    /\ o_loop.pc = "sleep"
    /\ o_loop' = AfterWait("poll", 0)
    /\ UNCHANGED <<o_fd, o_events, o_running, varsNotO>>

\* lines 466, 476, 479: update_file_data_and_notify(force_battery_update=True)
\* returns; the while condition is tested
O_Update ==
    /\ o_loop.pc = "update"
    /\ o_loop' = [o_loop EXCEPT !.calls = @ + 1, !.force = TRUE,
                                !.pc = IF ~o_running THEN "ended"
                                       ELSE IF o_fd = NoFd THEN "sleep" ELSE "select"]
    /\ UNCHANGED <<o_fd, o_events, o_running, varsNotO>>

\* the steps of the inotify thread
inotify_event_loop ==
    \/ setup_inotify_watches
    \/ O_SelectReadable
    \/ O_SelectTimeout
    \/ O_SleepReturns
    \/ O_Update

NextO ==
    \/ inotify_event_loop
    \/ O_Event
    \/ O_Stop

O_Waiting == o_loop.pc \in {"select", "sleep"}

Queries == {"j/activewindow", "j/workspaces", "j/activeworkspace"}

\* the candidate socket locations in the order of potential_paths:
\* 1 = $XDG_RUNTIME_DIR/hypr/<signature>/.socket.sock, 2 = /tmp/hypr/<signature>/.socket.sock
Locations == {1, 2}

\* what happens at a location:
\*   "absent"    no socket file there (line 88)
\*   "refused"   connect or sendall raises socket.error (lines 95-98, 125)
\*   "empty"     no byte is received (lines 121-123)
\*   "oversized" more than 131072 bytes (lines 108-110)
\*   "not_json"  json.loads raises JSONDecodeError (lines 118-120)
\*   "bad_utf8"  decode raises UnicodeDecodeError (line 116)
\*   "other"     valid JSON that is not of the type the getter expects
\*   "ok"        the compositor's answer
Outcomes == {"absent", "refused", "empty", "oversized", "not_json", "bad_utf8", "other", "ok"}

\* potential_paths, lines 76-84
potential_paths(env) == IF env.xdg THEN <<1, 2>> ELSE <<2>>

\* the for loop of lines 86-133 over the locations still to try; examined:
\* the locations the loop has looked at so far
RECURSIVE TryPaths(_, _, _)
TryPaths(paths, out, examined) ==
    IF paths = <<>>
    THEN [kind |-> "None", examined |-> examined]
    ELSE LET loc  == Head(paths)
             seen == Append(examined, loc)
         IN  CASE out[loc] \in {"absent", "refused"} -> TryPaths(Tail(paths), out, seen)
               [] out[loc] \in {"empty", "oversized", "not_json"} ->
                      [kind |-> "None", examined |-> seen]
               [] out[loc] = "bad_utf8" -> [kind |-> "raise", examined |-> seen]
               [] out[loc] = "other" -> [kind |-> "other", examined |-> seen]
               [] out[loc] = "ok" -> [kind |-> "data", examined |-> seen]

\* _fetch_hyprland_data, lines 70-135
fetch_hyprland_data(env, out) ==
    IF ~env.signature
    THEN [kind |-> "None", examined |-> <<>>]
    ELSE TryPaths(potential_paths(env), out, <<>>)

\* the values of the three facts: what the compositor answers, and what the
\* getters return without an answer (lines 146, 168, 175)
WindowAnswer   == "a window"
WindowFallback == "Hyprland, ArchLinux"
WindowX11      == "Desktop (X11)"
WorkspacesAnswer   == <<1, 2>>
WorkspacesFallback == <<>>
ActiveAnswer   == Head(WorkspacesAnswer)
ActiveFallback == None

FallbackState ==
    [active_window |-> WindowFallback, workspaces |-> WorkspacesFallback,
     active_workspace_id |-> ActiveFallback]

\* get_current_display_state, lines 195-218
get_current_display_state(env, out) ==
    LET window == fetch_hyprland_data(env, out["j/activewindow"])
        spaces == fetch_hyprland_data(env, out["j/workspaces"])
        active == fetch_hyprland_data(env, out["j/activeworkspace"])
    IN  IF env.signature
        THEN IF "raise" \in {window.kind, spaces.kind, active.kind}
             THEN FallbackState
             ELSE [active_window |-> IF window.kind = "data" THEN WindowAnswer ELSE WindowFallback,
                   workspaces |-> IF spaces.kind = "data" THEN WorkspacesAnswer
                                  ELSE WorkspacesFallback,
                   active_workspace_id |-> IF active.kind = "data" THEN ActiveAnswer
                                           ELSE ActiveFallback]
        ELSE IF env.display
        THEN [active_window |-> WindowX11, workspaces |-> WorkspacesFallback,
              active_workspace_id |-> ActiveFallback]
        ELSE FallbackState

NoEnv == [signature |-> FALSE, xdg |-> FALSE, display |-> FALSE]

InitH ==
    /\ h_env = NoEnv
    /\ h_out = <<>>
    /\ h_ret = <<>>
    /\ h_state = <<>>

Environments == [signature : BOOLEAN, xdg : BOOLEAN, display : BOOLEAN]

\* the cases followed: any two outcomes for the window query; for each of the
\* other two queries one outcome, the same at both locations
QueryOutcomes ==
    { [q \in Queries |->
          IF q = "j/activewindow" THEN window
          ELSE [loc \in Locations |-> IF q = "j/workspaces" THEN spaces ELSE active]] :
      window \in [Locations -> Outcomes], spaces \in Outcomes, active \in Outcomes }

\* the session the daemon runs in, and what its compositor does
H_Session ==
    /\ h_out = <<>>
    /\ \E env \in Environments : h_env' = env
    /\ \E out \in QueryOutcomes : h_out' = out
    /\ UNCHANGED <<h_ret, h_state, varsNotH>>

\* one call of _fetch_hyprland_data
H_Fetch ==
    /\ h_out # <<>>
    /\ h_ret = <<>>
    /\ \E q \in Queries :
          h_ret' = <<[query |-> q, ret |-> fetch_hyprland_data(h_env, h_out[q])]>>
    /\ UNCHANGED <<h_env, h_out, h_state, varsNotH>>

\* monitor_display_state, line 232: new_state_data = self.get_current_display_state()
H_Sample ==
    /\ h_out # <<>>
    /\ h_state = <<>>
    /\ h_state' = <<get_current_display_state(h_env, h_out)>>
    /\ UNCHANGED <<h_env, h_out, h_ret, varsNotH>>

NextH ==
    \/ H_Session
    \/ H_Fetch
    \/ H_Sample

\* C30: a query gives up (returns no data) only after every candidate
\* location has been tried.
C30_EveryLocationTried ==
    (h_ret # <<>> /\ h_env.signature /\ h_ret[1].ret.kind = "None") =>
        h_ret[1].ret.examined = potential_paths(h_env)

\* a query fails: the compositor is absent or _fetch_hyprland_data does
\* not come back with the compositor's answer
QueryFailed(q) ==
    \/ ~h_env.signature
    \/ fetch_hyprland_data(h_env, h_out[q]).kind # "data"

TryLines == 212..218
NoRaise  == 0

AudioFields(volume, speaker_muted, mic_muted) ==
    [volume_percentage |-> volume, speaker_muted |-> speaker_muted, mic_muted |-> mic_muted]

\* line 175-176: the audio fields of current_data after construction
AudioUnset == AudioFields(None, "None", "None")

\* line 208
Placeholders == AudioFields(70, "False", "False")

\* what the mixer reports: a speaker (volume, muted) or none, a microphone
\* (muted) or none; the booleans and None of the muted fields are written as
\* "True", "False" and "None"
Speakers    == {<<>>, <<[volume |-> 30, muted |-> "True"]>>}
Microphones == {<<>>, <<[muted |-> "True"]>>}

InitA ==
    /\ a_env = <<>>
    /\ a_cvc = FALSE
    /\ a_main = [pc |-> "import", line |-> NoRaise, depth |-> 0]
    /\ a_service = "None"
    /\ a_glib = [loop |-> "None", connected |-> FALSE, cb |-> "idle", raised |-> FALSE]
    /\ a_lock = "free"
    /\ a_data = AudioUnset

\* lines 21-32: the import of gi/Cvc sets CVC_AVAILABLE; what the mixer will do
A_Import ==
    /\ a_main.pc = "import"
    /\ \E cvc \in BOOLEAN, line \in TryLines \cup {NoRaise} :
          /\ a_env' = [cvc |-> cvc, raises_at |-> IF cvc THEN line ELSE NoRaise]
          /\ a_cvc' = cvc
    /\ a_main' = [a_main EXCEPT !.pc = "call"]
    /\ UNCHANGED <<a_service, a_glib, a_lock, a_data, varsNotA>>

\* line 194, and line 223: self.init_audio_monitoring()
A_Call ==
    /\ a_main.pc = "call"
    /\ a_main.depth < MaxDepth
    /\ a_main' = [a_main EXCEPT !.pc = "check", !.depth = a_main.depth + 1]
    /\ UNCHANGED <<a_env, a_cvc, a_service, a_glib, a_lock, a_data, varsNotA>>

\* line 206: if not CVC_AVAILABLE
A_Check ==
    /\ a_main.pc = "check"
    /\ a_main' = IF a_cvc THEN [a_main EXCEPT !.pc = "try", !.line = 212]
                  ELSE [a_main EXCEPT !.pc = "lock"]
    /\ UNCHANGED <<a_env, a_cvc, a_service, a_glib, a_lock, a_data, varsNotA>>

\* line 208: with self.data_lock
A_Lock ==
    /\ a_main.pc = "lock"
    /\ a_lock = "free"
    /\ a_lock' = "main"
    /\ a_main' = [a_main EXCEPT !.pc = "store"]
    /\ UNCHANGED <<a_env, a_cvc, a_service, a_glib, a_data, varsNotA>>

\* lines 208-209: the placeholders are stored, the lock released; return
A_Store ==
    /\ a_main.pc = "store"
    /\ a_data' = Placeholders
    /\ a_lock' = "free"
    /\ a_main' = [a_main EXCEPT !.pc = "return"]
    /\ UNCHANGED <<a_env, a_cvc, a_service, a_glib, varsNotA>>

\* lines 210-218: one statement of the try block, which raises or takes effect
A_Try ==
    /\ a_main.pc = "try"
    /\ IF a_env.raises_at = a_main.line
       THEN /\ a_main' = [a_main EXCEPT !.pc = "except"]
            /\ UNCHANGED <<a_service, a_glib>>
       ELSE /\ a_main' = IF a_main.line = 218 THEN [a_main EXCEPT !.pc = "return"]
                         ELSE [a_main EXCEPT !.line = a_main.line + 1]
            /\ a_service' = IF a_main.line = 214 THEN "service" ELSE a_service
            /\ a_glib' = CASE a_main.line = 212 -> [a_glib EXCEPT !.loop = "created"]
                           [] a_main.line = 215 -> [a_glib EXCEPT !.connected = TRUE]
                           [] a_main.line = 216 -> [a_glib EXCEPT !.loop = "starting"]
                           [] OTHER -> a_glib
    /\ UNCHANGED <<a_env, a_cvc, a_lock, a_data, varsNotA>>

\* lines 219-221: the handler quits a running main loop
A_Except ==
    /\ a_main.pc = "except"
    /\ a_glib' = IF a_glib.loop = "running" THEN [a_glib EXCEPT !.loop = "quit"] ELSE a_glib
    /\ a_main' = [a_main EXCEPT !.pc = "reset"]
    /\ UNCHANGED <<a_env, a_cvc, a_service, a_lock, a_data, varsNotA>>

\* line 222 with CVC_AVAILABLE left as it is
A_Reset_KeepsFlag ==
    /\ a_main.pc = "reset"
    /\ a_service' = "None"
    /\ a_main' = [a_main EXCEPT !.pc = "call"]
    /\ UNCHANGED <<a_env, a_cvc, a_glib, a_lock, a_data, varsNotA>>

\* line 222: CVC_AVAILABLE, self.audio_service = False, None; then line 223
A_Reset ==
    /\ a_main.pc = "reset"
    /\ a_cvc' = FALSE
    /\ a_service' = "None"
    /\ a_main' = [a_main EXCEPT !.pc = "call"]
    /\ UNCHANGED <<a_env, a_glib, a_lock, a_data, varsNotA>>

\* a call of init_audio_monitoring returns: to line 223 of the call below
\* it, which returns in turn, or to line 195 of __init__
A_Return ==
    /\ a_main.pc = "return"
    /\ a_main' = [a_main EXCEPT !.pc = IF a_main.depth = 1 THEN "files" ELSE "return",
                                !.depth = a_main.depth - 1]
    /\ UNCHANGED <<a_env, a_cvc, a_service, a_glib, a_lock, a_data, varsNotA>>

\* lines 195-197, main() line 554 and run(): the daemon serves
A_InitRest ==
    /\ a_main.pc = "files"
    /\ a_main' = [a_main EXCEPT !.pc = "serving"]
    /\ UNCHANGED <<a_env, a_cvc, a_service, a_glib, a_lock, a_data, varsNotA>>

init_audio_monitoring ==
    \/ A_Call
    \/ A_Check
    \/ A_Lock
    \/ A_Store
    \/ A_Try
    \/ A_Except
    \/ A_Reset
    \/ A_Return

\* the thread started at line 216 enters main_loop.run
G_Run ==
    /\ a_glib.loop = "starting"
    /\ a_glib' = [a_glib EXCEPT !.loop = "running"]
    /\ UNCHANGED <<a_env, a_cvc, a_main, a_service, a_lock, a_data, varsNotA>>

\* the running loop dispatches a "changed" signal of the service
G_Changed ==
    /\ a_glib.loop = "running"
    /\ a_glib.connected
    /\ a_glib.cb = "idle"
    /\ a_glib' = [a_glib EXCEPT !.cb = "check"]
    /\ UNCHANGED <<a_env, a_cvc, a_main, a_service, a_lock, a_data, varsNotA>>

\* line 227: if not self.audio_service: return
G_Check ==
    /\ a_glib.cb = "check"
    /\ a_glib' = [a_glib EXCEPT !.cb = IF a_service = "None" THEN "idle" ELSE "lock"]
    /\ UNCHANGED <<a_env, a_cvc, a_main, a_service, a_lock, a_data, varsNotA>>

\* line 228: with self.data_lock
G_Lock ==
    /\ a_glib.cb = "lock"
    /\ a_lock = "free"
    /\ a_lock' = "glib"
    /\ a_glib' = [a_glib EXCEPT !.cb = "speaker"]
    /\ UNCHANGED <<a_env, a_cvc, a_main, a_service, a_data, varsNotA>>

\* lines 229-233: self.audio_service.speaker raises AttributeError on None
\* (the with statement releases the lock); else volume and muted are stored
G_Speaker ==
    /\ a_glib.cb = "speaker"
    /\ IF a_service = "None"
       THEN /\ a_glib' = [a_glib EXCEPT !.cb = "idle", !.raised = TRUE]
            /\ a_lock' = "free"
            /\ UNCHANGED a_data
       ELSE /\ a_glib' = [a_glib EXCEPT !.cb = "mic"]
            /\ \E speaker \in Speakers :
                  a_data' = IF speaker = <<>> THEN a_data
                            ELSE [a_data EXCEPT !.volume_percentage = speaker[1].volume,
                                                !.speaker_muted = speaker[1].muted]
            /\ UNCHANGED a_lock
    /\ UNCHANGED <<a_env, a_cvc, a_main, a_service, varsNotA>>

\* lines 235-239: the same for the microphone; the lock is released
G_Mic ==
    /\ a_glib.cb = "mic"
    /\ IF a_service = "None"
       THEN /\ a_glib' = [a_glib EXCEPT !.cb = "idle", !.raised = TRUE]
            /\ UNCHANGED a_data
       ELSE /\ a_glib' = [a_glib EXCEPT !.cb = "idle"]
            /\ \E mic \in Microphones :
                  a_data' = IF mic = <<>> THEN a_data
                            ELSE [a_data EXCEPT !.mic_muted = mic[1].muted]
    /\ a_lock' = "free"
    /\ UNCHANGED <<a_env, a_cvc, a_main, a_service, varsNotA>>

on_audio_state_changed ==
    \/ G_Check
    \/ G_Lock
    \/ G_Speaker
    \/ G_Mic

NextA ==
    \/ A_Import
    \/ init_audio_monitoring
    \/ A_InitRest
    \/ G_Run
    \/ G_Changed
    \/ on_audio_state_changed

\* the mixer library is unavailable or initialising the audio service raises
AudioFailed == a_env # <<>> /\ (~a_env.cvc \/ a_env.raises_at # NoRaise)

\* C31: when the mixer library is unavailable or initialising the audio
\* service raises, init_audio_monitoring returns with at most one recursive
\* call, audio_service is unset, the placeholders 70/false/false are stored,
\* and the start-up goes on to the serving state.
C31_AudioFallback ==
    /\ [](a_main.depth <= 2)
    /\ []((AudioFailed /\ a_main.pc \in {"files", "serving"}) =>
            (a_service = "None" /\ a_data = Placeholders))
    /\ (AudioFailed ~> a_main.pc = "serving")

\* idle_add raised while the GLib thread was in the callback, which then
\* failed on the unset service; the daemon serves the placeholders
C31_Witness ==
    /\ a_env # <<>> /\ a_env.raises_at = 218
    /\ a_glib.raised
    /\ a_main.pc = "serving"
    /\ a_data = Placeholders /\ a_service = "None"

\* ======================================================================
\*  ISLANDS, the listening thread
\* ======================================================================
\* listen_for_updates of time_island.py (101-135), window_island.py (90-122),
\* system_stats_island.py (105-122) and battery_island.py (53-70).

\* a line on the connection: "json" parses, "text" decodes but is not JSON,
\* "bytes" is not UTF-8, "blank" is empty or whitespace
LineKinds == {"json", "text", "bytes", "blank"}

\* the islands that catch JSONDecodeError around json.loads, inside the loop
\* over the lines (time_island.py 121-126, window_island.py 108-114)
CatchesPerLine(isl) == isl \in {"time", "window"}

InitJ ==
    /\ j_island = "None"
    /\ j_wire = <<>>
    /\ j_buffer = <<>>
    /\ j_sock = "None"
    /\ j_applied = <<>>
    /\ j_pc = "off"

\* the lines the peer writes to the connection before it closes it
Streams ==
    UNION { { [k \in 1..n |-> [kind |-> kinds[k], id |-> k]] : kinds \in [1..n -> LineKinds] } :
            n \in 0..MaxLines }

\* connect() has succeeded and started listen_for_updates; the peer writes
J_Start ==
    /\ j_pc = "off"
    /\ \E isl \in Islands : j_island' = isl
    /\ \E stream \in Streams : j_wire' = stream
    /\ j_sock' = "connected"
    /\ j_pc' = "recv"
    /\ UNCHANGED <<j_buffer, j_applied, varsNotJ>>

\* the finally clause: self.service_socket = None, a retry is scheduled
J_Finally ==
    /\ j_sock' = "None"
    /\ j_buffer' = <<>>
    /\ j_pc' = "done"

\* recv(...).decode(): a chunk of one or more whole lines; bytes that are not
\* UTF-8 raise UnicodeDecodeError, which leaves the loop in every island
J_Recv ==
    /\ j_pc = "recv"
    /\ \E n \in 1..Len(j_wire) :
          LET chunk == SubSeq(j_wire, 1, n)
          IN  /\ j_wire' = SubSeq(j_wire, n + 1, Len(j_wire))
              /\ IF \E k \in 1..n : chunk[k].kind = "bytes"
                 THEN J_Finally
                 ELSE j_buffer' = chunk /\ j_pc' = "lines" /\ UNCHANGED j_sock
    /\ UNCHANGED <<j_island, j_applied, varsNotJ>>

\* json.loads on a line that is not JSON: JSONDecodeError is caught around
\* the line, or by the except clause of the whole loop
J_NotJson ==
    IF CatchesPerLine(j_island)
    THEN j_buffer' = Tail(j_buffer) /\ UNCHANGED <<j_sock, j_pc>>
    ELSE J_Finally

\* the loop over the lines of the buffer: line, buffer = buffer.split('\n', 1)
J_Line ==
    /\ j_pc = "lines"
    /\ IF j_buffer = <<>>
       THEN j_pc' = "recv" /\ UNCHANGED <<j_buffer, j_sock, j_applied>>
       ELSE CASE Head(j_buffer).kind = "json" ->
                    /\ j_applied' = Append(j_applied, Head(j_buffer).id)
                    /\ j_buffer' = Tail(j_buffer)
                    /\ UNCHANGED <<j_sock, j_pc>>
              [] Head(j_buffer).kind = "blank" ->
                    /\ j_buffer' = Tail(j_buffer)
                    /\ UNCHANGED <<j_sock, j_pc, j_applied>>
              [] OTHER -> J_NotJson /\ UNCHANGED j_applied
    /\ UNCHANGED <<j_island, j_wire, varsNotJ>>

\* recv returns no data or raises: the peer has closed the connection
J_RecvEnd ==
    /\ j_pc = "recv"
    /\ j_wire = <<>>
    /\ J_Finally
    /\ UNCHANGED <<j_island, j_wire, j_applied, varsNotJ>>

listen_for_updates ==
    \/ J_Recv
    \/ J_Line
    \/ J_RecvEnd

NextJ ==
    \/ J_Start
    \/ listen_for_updates

\* the listening thread is about to parse a line that decodes and is not JSON
J_AtBadLine ==
    /\ j_pc = "lines"
    /\ j_buffer # <<>>
    /\ Head(j_buffer).kind = "text"

\* C33: in each island a received line that is not valid JSON is discarded
\* without tearing down the connection: the socket stays open and the lines
\* after it are still parsed.
C33_BadLineIsDiscarded ==
    [][ J_AtBadLine =>
          /\ j_sock' = "connected"
          /\ j_buffer' = Tail(j_buffer)
          /\ j_pc' = "lines" ]_vars

\* ======================================================================
\*  COMBINED DAEMON, the battery and backlight files
\* ======================================================================
\* _find_and_debug_battery_files (241-283), _find_backlight_files (285-286),
\* get_battery_info_internal (393-418), get_backlight_percentage_internal
\* (420-426), update_file_data_and_notify (428-458).

\* a file under /sys: missing, unreadable (open raises PermissionError), not
\* a number (int raises ValueError), or a number; the status file holds text
SysFile(state, value, text) == [state |-> state, value |-> value, text |-> text]
Missing     == SysFile("missing", None, <<>>)
Unreadable  == SysFile("unreadable", None, <<>>)
NotANumber  == SysFile("text", None, <<"x">>)
Number(n)   == SysFile("number", n, <<>>)
Status(str) == SysFile("text", None, str)

FileNames == {"capacity", "status", "actual_brightness", "max_brightness"}

\* the contents followed for each file
Contents(name) ==
    CASE name = "capacity" -> {Missing, Unreadable, NotANumber, Number(50)}
      [] name = "status" ->
             {Missing, Status(<<"D", "i", "s", "c", "h", "a", "r", "g", "i", "n", "g">>),
              Status(<<"C", "h", "a", "r", "g", "i", "n", "g">>)}
      [] name = "actual_brightness" -> {Missing, NotANumber, Number(40)}
      [] name = "max_brightness" -> {Missing, Number(0), Number(100)}

\* the other files of the battery directory, as _calculate_time_from_files
\* finds them
TimeFiles == [NoFiles EXCEPT !.time_to_empty = 1800, !.time_to_full = 600]

\* open() and int(f.read().strip()) on a file: the exception raised, if any
ReadRaises(file) ==
    CASE file.state = "missing" -> "FileNotFoundError"
      [] file.state = "unreadable" -> "PermissionError"
      [] file.state = "text" -> "ValueError"
      [] OTHER -> "none"

\* open() and f.read().strip() on the status file
ReadTextRaises(file) ==
    IF file.state \in {"missing", "unreadable"} THEN ReadRaises(file) ELSE "none"

\* lines 268-270 and 286: the paths __init__ keeps. A battery file's path is
\* kept if the file exists then; the two backlight paths are kept if the
\* backlight directory exists
FoundPaths(files, backlight_dir) ==
    [capacity  |-> files["capacity"].state # "missing",
     status    |-> files["status"].state # "missing",
     backlight |-> backlight_dir]

\* get_battery_info_internal, lines 393-418; opened: the files it opened
get_battery_info_internal(paths, files) ==
    IF ~paths.capacity \/ ~paths.status
    THEN [ret |-> NoBattery, opened |-> {}]
    ELSE IF ReadRaises(files["capacity"]) # "none"
    THEN [ret |-> NoBattery, opened |-> {"capacity"}]
    ELSE IF ReadTextRaises(files["status"]) # "none"
    THEN [ret |-> NoBattery, opened |-> {"capacity", "status"}]
    ELSE [ret |-> [battery_percentage |-> files["capacity"].value,
                   is_charging |-> parse_battery_status(files["status"].text),
                   battery_time_remaining |-> TimeRemaining(TimeFiles, files["status"].text)],
          opened |-> {"capacity", "status"}]

\* int((current / max_val) * 100) for max_val > 0, on values for which the
\* floating-point quotient is exact
Percent(current, max_val) == (current * 100) \div max_val

\* get_backlight_percentage_internal, lines 420-426
get_backlight_percentage_internal(paths, files) ==
    IF ~paths.backlight
    THEN [ret |-> None, opened |-> {}]
    ELSE IF ReadRaises(files["actual_brightness"]) # "none"
    THEN [ret |-> None, opened |-> {"actual_brightness"}]
    ELSE IF ReadRaises(files["max_brightness"]) # "none"
    THEN [ret |-> None, opened |-> {"actual_brightness", "max_brightness"}]
    ELSE [ret |-> IF files["max_brightness"].value > 0
                  THEN Percent(files["actual_brightness"].value, files["max_brightness"].value)
                  ELSE 0,
          opened |-> {"actual_brightness", "max_brightness"}]

FileFields(bat, backlight) ==
    [battery_percentage |-> bat.battery_percentage, is_charging |-> bat.is_charging,
     battery_time_remaining |-> bat.battery_time_remaining,
     backlight_percentage |-> backlight]

NoCall == [made |-> FALSE, force |-> FALSE, opened |-> {}, fresh |-> FALSE]

InitR ==
    /\ r_files = [name \in FileNames |-> Missing]
    /\ r_paths = FoundPaths([name \in FileNames |-> Missing], FALSE)
    /\ r_data = FileFields(NoBattery, None)
    /\ r_call = NoCall
    /\ r_pc = "off"

\* __init__, lines 173-182: the files as they are when the daemon starts; the
\* paths are looked up once
R_Construct ==
    /\ r_pc = "off"
    /\ \E files \in [FileNames -> UNION {Contents(name) : name \in FileNames}],
          backlight_dir \in BOOLEAN :
          /\ \A name \in FileNames : files[name] \in Contents(name)
          /\ ~backlight_dir =>
                 (files["actual_brightness"] = Missing /\ files["max_brightness"] = Missing)
          /\ r_files' = files
          /\ r_paths' = FoundPaths(files, backlight_dir)
    /\ r_pc' = "constructed"
    /\ UNCHANGED <<r_data, r_call, varsNotR>>

\* update_file_data_and_notify, lines 428-458, from a caller that has the
\* battery read: __init__ (line 195, unforced, time.time() - 0 >= 30) and
\* inotify_event_loop (lines 466, 476, 479, forced)
R_Update(force_battery_update, elapsed) ==
    /\ ShouldUpdateBattery(force_battery_update, elapsed, 0)
    /\ LET bat == get_battery_info_internal(r_paths, r_files)
           backlight == get_backlight_percentage_internal(r_paths, r_files)
       IN  /\ r_data' = FileFields(bat.ret, backlight.ret)
           /\ r_call' = [made |-> TRUE, force |-> force_battery_update,
                         opened |-> bat.opened \cup backlight.opened, fresh |-> TRUE]
    /\ UNCHANGED <<r_files, r_paths, varsNotR>>

\* __init__, line 195
R_FirstUpdate ==
    /\ r_pc = "constructed"
    /\ R_Update(FALSE, RefreshInterval)
    /\ r_pc' = "serving"

\* inotify_event_loop, lines 466, 476, 479
R_Refresh ==
    /\ r_pc = "serving"
    /\ \E elapsed \in {0, RefreshInterval} : R_Update(TRUE, elapsed)
    /\ UNCHANGED r_pc

\* one file changes, appears or disappears
R_Sysfs ==
    /\ r_pc = "serving"
    /\ \E name \in FileNames : \E content \in Contents(name) \ {r_files[name]} :
          r_files' = [r_files EXCEPT ![name] = content]
    /\ r_call' = [r_call EXCEPT !.fresh = FALSE]
    /\ UNCHANGED <<r_paths, r_data, r_pc, varsNotR>>

NextR ==
    \/ R_Construct
    \/ R_FirstUpdate
    \/ R_Refresh
    \/ R_Sysfs

\* what the files hold now: the battery triple, or 'no data' when capacity or
\* status is missing, unreadable or not a number
BatteryNow(files) ==
    IF files["capacity"].state = "number" /\ files["status"].state = "text"
    THEN [battery_percentage |-> files["capacity"].value,
          is_charging |-> parse_battery_status(files["status"].text),
          battery_time_remaining |-> TimeRemaining(TimeFiles, files["status"].text)]
    ELSE NoBattery

\* the backlight percentage the files hold now, 0 for max_brightness 0, or
\* 'no data'
BacklightNow(files) ==
    IF files["actual_brightness"].state = "number" /\ files["max_brightness"].state = "number"
    THEN IF files["max_brightness"].value > 0
         THEN Percent(files["actual_brightness"].value, files["max_brightness"].value)
         ELSE 0
    ELSE None

\* C34: with battery or backlight files missing, unreadable or non-numeric a
\* refresh stores 'no data' (battery null/false/null, backlight null, or 0 for
\* max_brightness 0), and every refresh reads the files again: after a
\* refresh the stored fields are what the files hold at that time.
C34_FilesAreReadOnEveryRefresh ==
    (r_call.made /\ r_call.fresh) =>
        r_data = FileFields(BatteryNow(r_files), BacklightNow(r_files))

\* ======================================================================
\*  COMBINED DAEMON, the writers of one connection
\* ======================================================================
\* notify_clients (484-493) called by the file thread (458) and by the audio
\* callback (238), and handle_client (495-498), on one client socket.
\* sendall(message) is a loop of send() calls; each call writes the next
\* part of the line, and the kernel orders the calls of different threads.
\* A with-block on data_lock is one step.

Writers == {"file", "audio", "handler"}

X_Idle == [pc |-> "idle", ver |-> 0, sent |-> 0]

InitX ==
    /\ x_thr = [w \in Writers |-> X_Idle]
    /\ x_ver = 0
    /\ x_registered = FALSE
    /\ x_wire = <<>>

\* accept_clients, lines 510-512: the socket is registered, then its handler
\* thread is started
X_Accept ==
    /\ ~x_registered
    /\ x_thr["handler"].pc = "idle"
    /\ x_wire = <<>>
    /\ x_registered' = TRUE
    /\ x_thr' = [x_thr EXCEPT !["handler"].pc = "msg"]
    /\ UNCHANGED <<x_ver, x_wire, varsNotX>>

\* lines 228-238 and 449-458: a change is stored under data_lock, which is
\* released before notify_clients is called
X_Store(w) ==
    /\ w \in {"file", "audio"}
    /\ x_thr[w].pc = "idle"
    /\ x_ver < MaxChanges
    /\ x_ver' = x_ver + 1
    /\ x_thr' = [x_thr EXCEPT ![w].pc = "copy"]
    /\ UNCHANGED <<x_registered, x_wire, varsNotX>>

\* notify_clients, lines 485-487: the data and the registry are copied under
\* data_lock; the loop over the copy starts
X_Copy(w) ==
    /\ w \in {"file", "audio"}
    /\ x_thr[w].pc = "copy"
    /\ x_thr' = [x_thr EXCEPT ![w] = IF x_registered
                                     THEN [pc |-> "sendall", ver |-> x_ver, sent |-> 0]
                                     ELSE X_Idle]
    /\ UNCHANGED <<x_ver, x_registered, x_wire, varsNotX>>

\* handle_client, line 496: the initial line is built under data_lock
X_Message ==
    /\ x_thr["handler"].pc = "msg"
    /\ x_thr' = [x_thr EXCEPT !["handler"] = [pc |-> "sendall", ver |-> x_ver, sent |-> 0]]
    /\ UNCHANGED <<x_ver, x_registered, x_wire, varsNotX>>

\* the next parts of w's line, numbered from..to
Parts(w, from, to) == [k \in 1..(to - from + 1) |-> [by |-> w, ver |-> x_thr[w].ver, part |-> from + k - 1]]

\* lines 488 and 498: one send() of the sendall loop writes one or more of
\* the parts that remain; sendall returns after the last part
X_Send(w) ==
    /\ x_thr[w].pc = "sendall"
    /\ \E n \in 1..(LineParts - x_thr[w].sent) :
          /\ x_wire' = x_wire \o Parts(w, x_thr[w].sent + 1, x_thr[w].sent + n)
          /\ x_thr' = [x_thr EXCEPT ![w] =
                          IF x_thr[w].sent + n = LineParts
                          THEN [X_Idle EXCEPT !.pc = IF w = "handler" THEN "recv" ELSE "idle"]
                          ELSE [@ EXCEPT !.sent = @ + n]]
    /\ UNCHANGED <<x_ver, x_registered, varsNotX>>

NextX ==
    \/ X_Accept
    \/ X_Message
    \/ \E w \in Writers :
          \/ X_Store(w)
          \/ X_Copy(w)
          \/ X_Send(w)

\* the threads inside a sendall on the connection
X_Writing == {w \in Writers : x_thr[w].pc = "sendall"}

\* every line on the connection is whole: part k of a line is followed at
\* once by part k + 1 of the same line
X_LinesWhole ==
    \A i \in 1..Len(x_wire) :
        x_wire[i].part < LineParts =>
            (i < Len(x_wire) =>
                /\ x_wire[i + 1].by = x_wire[i].by
                /\ x_wire[i + 1].ver = x_wire[i].ver
                /\ x_wire[i + 1].part = x_wire[i].part + 1)

\* C36: at most one thread at a time is writing to a given client
\* connection (the handler's initial send and the broadcasts of the file
\* thread and of the audio thread never overlap), so the lines on a
\* connection are never interleaved.
C36_OneWriterPerConnection ==
    /\ Cardinality(X_Writing) <= 1
    /\ X_LinesWhole

\* ======================================================================
\*  COMBINED DAEMON, the users of data_lock
\* ======================================================================
\* Every `with self.data_lock` of the class, by thread.  A with-block is
\* entered when the lock is free, and left, normally or by an exception
\* raised in its body, with the lock released.

LockUsers == {"main", "file", "audio", "accept", "handler"}

\* a with-block of a thread: at, the statement that acquires; inside, its
\* body; after, where the thread goes on; raised, where an exception raised
\* in the body is handled ("done": it ends the thread)
WithBlock(thread, at, inside, after, raised) ==
    [thread |-> thread, at |-> at, inside |-> inside, after |-> after, raised |-> raised]

\* update_file_data_and_notify (442-453), _on_audio_state_changed (228) and
\* notify_clients (485, 491) as run by thread t; raised: where an exception
\* that leaves these functions ends up in t
NotifierBlocks(t, raised) ==
    { WithBlock(t, "at_442", "in_442", {"at_449"}, raised),
      WithBlock(t, "at_449", "in_449", {"at_485", "return"}, raised),
      WithBlock(t, "at_228", "in_228", {"at_485", "return"}, raised),
      WithBlock(t, "at_485", "in_485", {"send"}, raised),
      WithBlock(t, "at_491", "in_491", {"return"}, raised) }

WithBlocks ==
    NotifierBlocks("main", "done") \cup NotifierBlocks("file", "done")
      \cup NotifierBlocks("audio", "return")
      \cup { WithBlock("main", "at_208", "in_208", {"update"}, "done"),
             WithBlock("main", "at_535", "in_535", {"done"}, "done"),
             WithBlock("accept", "at_511", "in_511", {"accept"}, "accept"),
             WithBlock("handler", "at_496", "in_496", {"at_498"}, "done"),
             WithBlock("handler", "at_502", "in_502", {"done"}, "done") }

\* the statements between the with-blocks: thread, from, to; up: the step is
\* taken while running is True ("up"), False ("down"), or either ("any")
Stmt(thread, from, to, up) == [thread |-> thread, from |-> from, to |-> to, up |-> up]

Stmts ==
    { \* __init__ 194: init_audio_monitoring with or without the mixer library
      Stmt("main", "init", "at_208", "any"), Stmt("main", "init", "update", "any"),
      \* __init__ 195, update_file_data_and_notify 435-446
      Stmt("main", "update", "at_449", "any"), Stmt("main", "update", "at_442", "any"),
      Stmt("main", "send", "return", "any"), Stmt("main", "send", "at_491", "any"),
      \* run 519-524: the loop on self.running, then cleanup
      Stmt("main", "return", "run", "any"), Stmt("main", "run", "at_535", "down"),
      \* inotify_event_loop 463-479
      Stmt("file", "wait", "update", "up"), Stmt("file", "wait", "done", "down"),
      Stmt("file", "update", "at_449", "any"), Stmt("file", "update", "at_442", "any"),
      Stmt("file", "send", "return", "any"), Stmt("file", "send", "at_491", "any"),
      Stmt("file", "return", "wait", "any"),
      \* the GLib loop dispatching _on_audio_state_changed, 225-239
      Stmt("audio", "idle", "at_228", "any"),
      Stmt("audio", "send", "return", "any"), Stmt("audio", "send", "at_491", "any"),
      Stmt("audio", "return", "idle", "any"),
      \* accept_clients 508-515
      Stmt("accept", "accept", "at_511", "up"), Stmt("accept", "accept", "done", "down"),
      \* handle_client 495-505: started by accept_clients; sendall and the
      \* recv loop end in the finally clause
      Stmt("handler", "off", "at_496", "any"), Stmt("handler", "at_498", "at_502", "any") }

InitM ==
    /\ m_pc = [t \in LockUsers |->
                  CASE t = "main" -> "init" [] t = "file" -> "wait" [] t = "audio" -> "idle"
                    [] t = "accept" -> "accept" [] OTHER -> "off"]
    /\ m_lock = "free"
    /\ m_running = TRUE

\* `with self.data_lock:` is entered
M_Acquire(t) ==
    /\ m_lock = "free"
    /\ \E b \in WithBlocks :
          /\ b.thread = t /\ m_pc[t] = b.at
          /\ m_pc' = [m_pc EXCEPT ![t] = b.inside]
    /\ m_lock' = t
    /\ UNCHANGED <<m_running, varsNotM>>

\* the body is left with the lock still held
M_Release_Held(t) ==
    /\ \E b \in WithBlocks :
          /\ b.thread = t /\ m_pc[t] = b.inside
          /\ \E next \in b.after : m_pc' = [m_pc EXCEPT ![t] = next]
    /\ UNCHANGED <<m_lock, m_running, varsNotM>>

\* the end of the with-block: the lock is released
M_Release(t) ==
    /\ \E b \in WithBlocks :
          /\ b.thread = t /\ m_pc[t] = b.inside
          /\ \E next \in b.after : m_pc' = [m_pc EXCEPT ![t] = next]
    /\ m_lock' = "free"
    /\ UNCHANGED <<m_running, varsNotM>>

\* an exception raised in the body: __exit__ releases the lock
M_Raise(t) ==
    /\ \E b \in WithBlocks :
          /\ b.thread = t /\ m_pc[t] = b.inside
          /\ m_pc' = [m_pc EXCEPT ![t] = b.raised]
    /\ m_lock' = "free"
    /\ UNCHANGED <<m_running, varsNotM>>

\* a statement outside the with-blocks
M_Stmt(t) ==
    /\ \E s \in Stmts :
          /\ s.thread = t /\ m_pc[t] = s.from
          /\ s.up \in {"any", IF m_running THEN "up" ELSE "down"}
          /\ m_pc' = [m_pc EXCEPT ![t] = s.to]
    /\ UNCHANGED <<m_lock, m_running, varsNotM>>

\* signal_handler, lines 199-202, between two statements of the main thread
M_SignalHandler ==
    /\ m_running
    /\ m_running' = FALSE
    /\ UNCHANGED <<m_pc, m_lock, varsNotM>>

M_Thread(t) ==
    \/ M_Acquire(t)
    \/ M_Release(t)
    \/ M_Raise(t)
    \/ M_Stmt(t)

NextM ==
    \/ \E t \in LockUsers : M_Thread(t)
    \/ M_SignalHandler

\* thread t is at a `with self.data_lock`
M_AtAcquire(t) == \E b \in WithBlocks : b.thread = t /\ m_pc[t] = b.at

\* thread t is in the body of a with-block
M_InBody(t) == \E b \in WithBlocks : b.thread = t /\ m_pc[t] = b.inside

\* C37: no thread attempts to acquire data_lock while it holds it
\* (notify_clients is called after the caller has released the lock), and
\* every acquisition is followed by a release, on exception paths and in
\* cleanup too: the lock is held only inside a with-block, and the step that
\* leaves the block frees it.
C37_NoDeadlockOnDataLock ==
    /\ [](\A t \in LockUsers : M_AtAcquire(t) => m_lock # t)
    /\ [](\A t \in LockUsers : m_lock = t => M_InBody(t))
    /\ [][ \A t \in LockUsers :
            (m_lock = t /\ m_pc'[t] # m_pc[t]) => m_lock' = "free" ]_vars

\* cleanup waits for data_lock while the file thread holds it at line 491,
\* after the audio callback has left its with-block by an exception
C37_Witness ==
    /\ m_pc["main"] = "at_535"
    /\ m_lock = "file" /\ m_pc["file"] = "in_491"
    /\ m_pc["audio"] = "return"
    /\ m_pc["handler"] = "done"

\* ======================================================================
\*  COMBINED DAEMON, connections accepted while it shuts down
\* ======================================================================
\* Every `with self.data_lock` block of these functions is one step: the
\* blocks are the only code that touches self.clients, and none of them
\* waits inside.

Arrivals == 1..MaxArrivals

\* accept_clients has no socket in hand
NoSocket == 0

InitE ==
    /\ e_running = TRUE
    /\ e_main = "serving"
    /\ e_accept = [pc |-> "check", cur |-> NoSocket]
    /\ e_listen = TRUE
    /\ e_sock = [c \in Arrivals |-> "none"]
    /\ e_gone = {}
    /\ e_clients = {}
    /\ e_hand = [c \in Arrivals |-> "off"]
    /\ e_late = {}

\* the process has not ended
E_Alive == e_main # "exited"

\* cleanup has left its with-block (lines 535-537)
E_Cleared == e_main \in {"close_server", "join", "exited"}

\* a bar island connects: the connection waits in the backlog of listen(5)
E_Connect(c) ==
    /\ e_listen
    /\ e_sock[c] = "none"
    /\ e_sock' = [e_sock EXCEPT ![c] = "pending"]
    /\ UNCHANGED <<e_running, e_main, e_accept, e_listen, e_gone, e_clients, e_hand, e_late, varsNotE>>

\* the island closes its end of an accepted connection
E_PeerClose(c) ==
    /\ e_sock[c] = "open"
    /\ c \notin e_gone
    /\ e_gone' = e_gone \cup {c}
    /\ UNCHANGED <<e_running, e_main, e_accept, e_listen, e_sock, e_clients, e_hand, e_late, varsNotE>>

\* signal_handler, lines 199-202: self.running = False
E_SignalHandler ==
    /\ E_Alive
    /\ e_running
    /\ e_running' = FALSE
    /\ UNCHANGED <<e_main, e_accept, e_listen, e_sock, e_gone, e_clients, e_hand, e_late, varsNotE>>

\* run, lines 522-524: the wait loop ends, finally sets running to False
\* and calls cleanup
E_LoopExit ==
    /\ e_main = "serving"
    /\ ~e_running
    /\ e_main' = "cleanup"
    /\ UNCHANGED <<e_running, e_accept, e_listen, e_sock, e_gone, e_clients, e_hand, e_late, varsNotE>>

\* cleanup, lines 535-537: under data_lock every registered client is closed
\* and self.clients is cleared
E_Cleanup ==
    /\ e_main = "cleanup"
    /\ e_sock' = [c \in Arrivals |-> IF c \in e_clients THEN "closed" ELSE e_sock[c]]
    /\ e_clients' = {}
    /\ e_main' = "close_server"
    /\ UNCHANGED <<e_running, e_accept, e_listen, e_gone, e_hand, e_late, varsNotE>>

\* cleanup, lines 538-544: server_socket.close(); the connections still in
\* the backlog are reset by the kernel
E_CloseServer ==
    /\ e_main = "close_server"
    /\ e_listen' = FALSE
    /\ e_sock' = [c \in Arrivals |-> IF e_sock[c] = "pending" THEN "reset" ELSE e_sock[c]]
    /\ e_main' = "join"
    /\ UNCHANGED <<e_running, e_accept, e_gone, e_clients, e_hand, e_late, varsNotE>>

\* run, lines 525-526, and main, lines 556-558: the joins time out or
\* return, main returns and the process ends; the daemon threads end with
\* it, the kernel closes every descriptor and the memory of the process,
\* self.clients with it, is gone
E_ProcessEnds ==
    /\ e_main = "join"
    /\ e_main' = "exited"
    /\ e_sock' = [c \in Arrivals |-> IF e_sock[c] \in {"open", "pending"} THEN "closed" ELSE e_sock[c]]
    /\ e_clients' = {}
    /\ e_accept' = [pc |-> "ended", cur |-> NoSocket]
    /\ e_hand' = [c \in Arrivals |-> IF e_hand[c] \in {"off", "done"} THEN e_hand[c] ELSE "ended"]
    /\ UNCHANGED <<e_running, e_listen, e_gone, e_late, varsNotE>>

\* accept_clients, line 508: while self.running
E_AcceptCheck ==
    /\ e_accept.pc = "check"
    /\ e_accept' = [e_accept EXCEPT !.pc = IF e_running THEN "accept" ELSE "done"]
    /\ UNCHANGED <<e_running, e_main, e_listen, e_sock, e_gone, e_clients, e_hand, e_late, varsNotE>>

\* accept_clients, line 510: accept() returns a connection of the backlog
E_AcceptReturns(c) ==
    /\ e_accept.pc = "accept"
    /\ e_listen
    /\ e_sock[c] = "pending"
    /\ e_sock' = [e_sock EXCEPT ![c] = "open"]
    /\ e_accept' = [pc |-> "append", cur |-> c]
    /\ e_late' = IF E_Cleared THEN e_late \cup {c} ELSE e_late
    /\ UNCHANGED <<e_running, e_main, e_listen, e_gone, e_clients, e_hand, varsNotE>>

\* accept_clients, lines 510 and 513-515: accept() times out after one
\* second, or raises on the closed listening socket; the loop goes on
E_AcceptRaises ==
    /\ e_accept.pc = "accept"
    /\ \/ ~e_listen
       \/ \A c \in Arrivals : e_sock[c] # "pending"
    /\ e_accept' = [e_accept EXCEPT !.pc = "check"]
    /\ UNCHANGED <<e_running, e_main, e_listen, e_sock, e_gone, e_clients, e_hand, e_late, varsNotE>>

\* accept_clients, line 511: with self.data_lock: self.clients.append
E_Append ==
    /\ e_accept.pc = "append"
    /\ e_clients' = e_clients \cup {e_accept.cur}
    /\ e_accept' = [e_accept EXCEPT !.pc = "start"]
    /\ UNCHANGED <<e_running, e_main, e_listen, e_sock, e_gone, e_hand, e_late, varsNotE>>

\* accept_clients, line 512: the handle_client thread is started
E_StartHandler ==
    /\ e_accept.pc = "start"
    /\ e_hand' = [e_hand EXCEPT ![e_accept.cur] = "message"]
    /\ e_accept' = [pc |-> "check", cur |-> NoSocket]
    /\ UNCHANGED <<e_running, e_main, e_listen, e_sock, e_gone, e_clients, e_late, varsNotE>>

E_HandGoto(c, pc) == e_hand' = [e_hand EXCEPT ![c] = pc]

\* handle_client, lines 496-498: the initial line is built under the lock
\* and sent; sendall raises on a socket that cleanup closed, and may raise
\* when the peer is gone
E_HandlerSend(c) ==
    /\ e_hand[c] = "message"
    /\ \/ e_sock[c] = "open" /\ E_HandGoto(c, "loop")
       \/ (e_sock[c] # "open" \/ c \in e_gone) /\ E_HandGoto(c, "finally")
    /\ UNCHANGED <<e_running, e_main, e_accept, e_listen, e_sock, e_gone, e_clients, e_late, varsNotE>>

\* handle_client, line 499: while self.running and client_socket.fileno() != -1
E_HandlerLoop_IgnoresRunning(c) ==
    /\ e_hand[c] = "loop"
    /\ E_HandGoto(c, IF e_sock[c] = "open" THEN "recv" ELSE "finally")
    /\ UNCHANGED <<e_running, e_main, e_accept, e_listen, e_sock, e_gone, e_clients, e_late, varsNotE>>

E_HandlerLoop(c) ==
    /\ e_hand[c] = "loop"
    /\ E_HandGoto(c, IF e_running /\ e_sock[c] = "open" THEN "recv" ELSE "finally")
    /\ UNCHANGED <<e_running, e_main, e_accept, e_listen, e_sock, e_gone, e_clients, e_late, varsNotE>>

\* handle_client, line 500: recv returns b"" when the peer has closed
\* (break) and raises on a socket cleanup closed; the bar islands send
\* nothing, so it returns in no other case
E_HandlerRecv(c) ==
    /\ e_hand[c] = "recv"
    /\ c \in e_gone \/ e_sock[c] # "open"
    /\ E_HandGoto(c, "finally")
    /\ UNCHANGED <<e_running, e_main, e_accept, e_listen, e_sock, e_gone, e_clients, e_late, varsNotE>>

\* handle_client, lines 502-503: under data_lock the socket is removed from
\* self.clients if it is there
E_HandlerRemove(c) ==
    /\ e_hand[c] = "finally"
    /\ e_clients' = e_clients \ {c}
    /\ E_HandGoto(c, "close")
    /\ UNCHANGED <<e_running, e_main, e_accept, e_listen, e_sock, e_gone, e_late, varsNotE>>

\* handle_client, lines 504-505: client_socket.close()
E_HandlerClose(c) ==
    /\ e_hand[c] = "close"
    /\ e_sock' = [e_sock EXCEPT ![c] = "closed"]
    /\ E_HandGoto(c, "done")
    /\ UNCHANGED <<e_running, e_main, e_accept, e_listen, e_gone, e_clients, e_late, varsNotE>>

\* the main thread from the wait loop of run() to the end of the process
E_Main == E_LoopExit \/ E_Cleanup \/ E_CloseServer \/ E_ProcessEnds

E_accept_clients ==
    \/ E_AcceptCheck
    \/ \E c \in Arrivals : E_AcceptReturns(c)
    \/ E_AcceptRaises
    \/ E_Append
    \/ E_StartHandler

E_handle_client(c) ==
    \/ E_HandlerSend(c)
    \/ E_HandlerLoop(c)
    \/ E_HandlerRecv(c)
    \/ E_HandlerRemove(c)
    \/ E_HandlerClose(c)

NextE ==
    \/ \E c \in Arrivals : E_Connect(c)
    \/ \E c \in Arrivals : E_PeerClose(c)
    \/ E_SignalHandler
    \/ E_Main
    \/ E_accept_clients
    \/ \E c \in Arrivals : E_handle_client(c)

\* the connection is closed on the daemon's side and is not registered
E_ClosedAndDeregistered(c) == e_sock[c] # "open" /\ c \notin e_clients

\* C39: a connection accept() returns after cleanup has closed the
\* registered clients and cleared the registry is eventually closed and out
\* of the registry; its handler does not wait in recv; once the process has
\* ended no accepted socket is open or registered.
C39_LateConnectionIsClosed ==
    /\ [](\A c \in e_late : e_hand[c] # "recv")
    /\ [](e_main = "exited" => \A c \in Arrivals : E_ClosedAndDeregistered(c))
    /\ \A c \in Arrivals : (c \in e_late ~> E_ClosedAndDeregistered(c))

\* a connection accepted after the registry was cleared has been registered,
\* and its handler has removed and closed it while the process was alive
C39_Witness ==
    \E c \in e_late :
        /\ e_hand[c] = "done"
        /\ E_ClosedAndDeregistered(c)
        /\ E_Alive

Init == InitT /\ InitC /\ InitL /\ InitK /\ InitP /\ InitB /\ InitW /\ InitI /\ InitV /\ InitN /\ InitS /\ InitO /\ InitH /\ InitA /\ InitJ /\ InitR /\ InitX /\ InitM /\ InitE

SpecTime == Init /\ [][NextT]_vars

\* the monitor thread and every handler thread keep running
FairTime ==
    Init /\ [][NextT]_vars /\ WF_vars(T_Monitor) /\ \A c \in Socks : WF_vars(T_HandlerOf(c))

SpecCombined == Init /\ [][NextC]_vars

SpecFile == Init /\ [][NextFile]_vars

SpecServing == Init /\ [][NextServing]_vars

SpecTimeLife == Init /\ [][NextL]_vars

SpecParse == Init /\ [][NextP]_vars

SpecBatteryTime == Init /\ [][NextB]_vars

SpecWorkspaces == Init /\ [][NextW]_vars

SpecCombinedLife == Init /\ [][NextK]_vars

\* every started process keeps executing its statements
FairCombinedLife == Init /\ [][NextK]_vars /\ \A i \in Insts : WF_vars(K_Step(i))

SpecIsland == Init /\ [][NextI]_vars

\* the connect thread runs and the GLib main loop dispatches its sources
FairIsland == Init /\ [][NextI]_vars /\ WF_vars(I_Step)


SpecWindow == Init /\ [][NextV]_vars

\* the monitor thread and every handler thread keep running
FairWindow ==
    Init /\ [][NextV]_vars /\ WF_vars(V_Monitor) /\ \A c \in Viewers : WF_vars(V_HandlerOf(c))


SpecInbound == Init /\ [][NextInbound]_vars


SpecSleep == Init /\ [][NextS]_vars


SpecWatch == Init /\ [][NextO]_vars

\* the inotify thread keeps running
FairWatch == Init /\ [][NextO]_vars /\ WF_vars(inotify_event_loop)


SpecCompositor == Init /\ [][NextH]_vars


SpecAudio == Init /\ [][NextA]_vars

FairAudio ==
    SpecAudio /\ WF_vars(A_Import) /\ WF_vars(init_audio_monitoring) /\ WF_vars(A_InitRest)
              /\ WF_vars(on_audio_state_changed)


SpecListen == Init /\ [][NextJ]_vars


SpecSysfs == Init /\ [][NextR]_vars


SpecWriters == Init /\ [][NextX]_vars


SpecLock == Init /\ [][NextM]_vars


SpecLateAccept == Init /\ [][NextE]_vars

\* the threads of the daemon keep running until the process ends
FairLateAccept ==
    /\ SpecLateAccept
    /\ WF_vars(E_Main)
    /\ WF_vars(E_accept_clients)
    /\ \A c \in Arrivals : WF_vars(E_handle_client(c))

====
